---- MODULE Spec2Model ----
(***************************************************************************)
(* Model of the ioc jail manager: the migrate batch workflow               *)
(* (ioc_cli/migrate.py, _migrate_jails) on top of the event / rollback     *)
(* model (libioc.events) and the jail operations it calls.                 *)
(*                                                                         *)
(* _migrate_jails is a generator.  One action of the model is the code one *)
(* pull (next()) of the consumer runs: from the yield the generator is     *)
(* suspended at to the next yield, to the end of the generator or to an    *)
(* exception that leaves it.                                               *)
(***************************************************************************)
EXTENDS Integers, Sequences, FiniteSets, TLC

\* number of jails of one migrate batch
NumJails == 2
\* largest number of rollback steps the event harness registers on an event
MaxSteps == 3

JailIds == 1..NumJails

\* the values of config["tag"]: names that validate_name accepts, and one
\* that it rejects
ValidNames == {"web"}
Tags == ValidNames \cup {"not a name"}

\* the values hash(name) % (1 << 32) takes on the display names of the batch
\* (the hash of a string differs from process to process; two names can
\* share a value)
HashValues == {5, 7}

\* "import-" + str(hash(name) % (1 << 32))
ImportName(h) == "import-" \o ToString(h)

\* the names a migration target can have
TargetNames == ValidNames \cup {ImportName(h) : h \in HashValues}

\* libioc.errors: the classes derived from IocException
IocException == {"JailAlreadyRunning", "JailAlreadyExists", "IocException"}
\* what a failing jail operation (clone_from_jail, save, promote, destroy,
\* rename) raises: an error of libioc
Raised == {"IocException"}

\* rollback steps the event harness registers
StepIds == {"a", "b"}

VARIABLES
    jails,      \* per jail: config.legacy, config["tag"], hash of its display name
    running,    \* per jail: jail.running
    dataset,    \* per jail: dataset tree of the legacy jail
    target,     \* per target name: the jail dataset that exists under it
    renamed,    \* per jail: the new jail carries the final (display) name
    event,      \* per jail: its JailMigrationEvent
    stream,     \* the events the generator has yielded, in order
    calls,      \* per jail: the jail operations invoked for it, with outcome
    pc,         \* where the generator is suspended
    idx,        \* position of the for loop in the batch
    release,    \* the release: what fetch and update read and change of it
    revent,     \* per event of Release.fetch: the event
    rlocal,     \* the arguments and local variables of Release.fetch
    zfs,        \* the pool: datasets, mounts, snapshots, origins
    zcall,      \* the last call of a ZFS method: arguments, backend calls, result
    ncalls,     \* number of calls of ZFS methods made
    ioc_jails,  \* the jails the start command selected: config, state
    cli,        \* the arguments and local variables of the start command
    exit_code,  \* exit status of the command's process, -1 while it runs
    limit,      \* a resource limit: its input, the object, the last call on it
    stamps      \* the snapshot names built with a timestamp, with their instant

vars == <<jails, running, dataset, target, renamed, event, stream, calls,
          pc, idx, release, revent, rlocal, zfs, zcall, ncalls,
          ioc_jails, cli, exit_code, limit, stamps>>

\* what the migrate batch leaves alone
releaseVars == <<release, revent, rlocal>>
zfsVars == <<zfs, zcall, ncalls>>
cliVars == <<ioc_jails, cli, exit_code>>
valueVars == <<limit, stamps>>
MigrateOnly == UNCHANGED <<releaseVars, zfsVars, cliVars, valueVars>>

\* no release is fetched, no ZFS method is called
ReleaseIdle == release = <<>> /\ revent = <<>> /\ rlocal = <<>>
ZfsIdle == zfs = <<>> /\ zcall = <<>> /\ ncalls = 0

\* the start command is not run, the process has not exited
CliIdle == ioc_jails = <<>> /\ cli = <<>> /\ exit_code = -1

\* no resource limit is handled, no snapshot name is built
ValuesIdle == limit = <<>> /\ stamps = <<>>

----------------------------------------------------------------------------
\* Datasets

NoJail == [state |-> "absent", owner |-> 0, saved |-> FALSE, promoted |-> FALSE]
ForeignJail == [state |-> "complete", owner |-> 0, saved |-> TRUE,
                promoted |-> TRUE]

\* libioc.helpers.validate_name
validate_name(tag) == tag \in ValidNames

\* jail.humanreadable_name
humanreadable_name(i) == "jail-" \o ToString(i)

\* the name the migrated jail is to carry in the end
name(i) ==
    IF validate_name(jails[i].tag) THEN jails[i].tag
    ELSE humanreadable_name(i)

\* the name the new jail is created under
temporary_name(i) ==
    IF validate_name(jails[i].tag) THEN name(i)
    ELSE ImportName(jails[i].hash)

----------------------------------------------------------------------------
\* Event

NewEvent == [state |-> "pending", error |-> "none", rollback_steps |-> <<>>,
             reverted |-> <<>>]

begin(ev) == [ev EXCEPT !.state = "running"]

end(ev) == [ev EXCEPT !.state = "done"]

skip(ev) == [ev EXCEPT !.state = "skipped"]

add_rollback_step(ev, step) ==
    [ev EXCEPT !.rollback_steps = Append(@, step)]

\* the outcomes of the rollback steps of an event: one per registered step
RollbackOutcomes(ev) == [1..Len(ev.rollback_steps) -> BOOLEAN]

\* mutant: the rollback steps run in registration order
rollback_InRegistrationOrder(ev, ok) ==
    [k \in 1..Len(ev.rollback_steps) |->
        [step |-> ev.rollback_steps[k], ok |-> ok[k]]]

\* rollback(): the rollback steps in the order they are run (the reverse of
\* their registration), each with its outcome; a failing step is kept as a
\* failed sub-event and does not stop the steps after it
rollback(ev, ok) ==
    LET n == Len(ev.rollback_steps)
    IN  [k \in 1..n |->
            [step |-> ev.rollback_steps[n + 1 - k], ok |-> ok[n + 1 - k]]]

\* fail(error): run the rollback, keep the error, enter the failed state
fail(ev, e, ok) ==
    [ev EXCEPT !.state = "failed", !.error = e, !.reverted = rollback(ev, ok)]

\* an event as it is yielded
Emit(i, type, state, e) ==
    [identifier |-> i, type |-> type, state |-> state, error |-> e]

----------------------------------------------------------------------------
\* _migrate_jails

\* mutant: the legacy check never skips
ShouldSkip_Never(i) == FALSE

ShouldSkip(i) == jails[i].legacy = FALSE

\* mutant: the running check is missing
IsRunning_Never(i) == FALSE

IsRunning(i) == running[i] = TRUE

TargetExists(i) == target[temporary_name(i)].state # "absent"

\* mutant: the new jail is renamed whatever its temporary name
NeedsRename_Always(i) == TRUE

NeedsRename(i) == name(i) # temporary_name(i)

\* mutant: the rollback step is not registered
RegisterDestroyUncleanMigration_Missing(ev) == ev

RegisterDestroyUncleanMigration(ev) ==
    add_rollback_step(ev, "_destroy_unclean_migration")

Caught(e) == e \in IocException

\* mutant: the rollback step leaves the target jail in place
DestroyUncleanMigration_Noop(tgt, i, ev, ok) == tgt

\* _destroy_unclean_migration: new_jail.destroy(force=True)
DestroyUncleanMigration(tgt, i, ev, ok) ==
    IF \E p \in 1..Len(ev.rollback_steps) :
            ev.rollback_steps[p] = "_destroy_unclean_migration" /\ ok[p]
    THEN [tgt EXCEPT ![temporary_name(i)] = NoJail]
    ELSE tgt

Called(op, ok) == [op |-> op, ok |-> ok]

\* continue: the for loop goes on to the next jail
Continue ==
    /\ idx' = idx + 1
    /\ pc' = "loop"

\* mutant: a failure of a rollback step leaves the handler as an exception
ExceptIocException_RollbackRaises(e, ok, tgt) ==
    /\ event' = [event EXCEPT ![idx] =
            IF \A p \in DOMAIN ok : ok[p] THEN fail(@, e, ok)
            ELSE [@ EXCEPT !.reverted = rollback(event[idx], ok)]]
    /\ target' = DestroyUncleanMigration(tgt, idx, event[idx], ok)
    /\ IF \A p \in DOMAIN ok : ok[p]
       THEN /\ stream' = Append(stream, Emit(idx, "JailMigration", "failed", e))
            /\ Continue
       ELSE /\ pc' = "raised"
            /\ UNCHANGED <<stream, idx>>

\* except libioc.errors.IocException as e: yield event.fail(e); continue
ExceptIocException(e, ok, tgt) ==
    /\ event' = [event EXCEPT ![idx] = fail(@, e, ok)]
    /\ target' = DestroyUncleanMigration(tgt, idx, event[idx], ok)
    /\ stream' = Append(stream, Emit(idx, "JailMigration", "failed", e))
    /\ Continue

\* an exception no handler catches ends the generator
Propagate(tgt) ==
    /\ target' = tgt
    /\ pc' = "raised"
    /\ UNCHANGED <<event, stream, idx>>

\* an exception raised inside the try block
RaiseInTry(e, ok, tgt) ==
    IF Caught(e) THEN ExceptIocException(e, ok, tgt) ELSE Propagate(tgt)

\* mutant: the work on a jail starts without its begin event being yielded
Begin_NotYielded ==
    /\ MigrateOnly
    /\ pc = "loop"
    /\ idx <= NumJails
    /\ event' = [event EXCEPT ![idx] = begin(NewEvent)]
    /\ pc' = "begun"
    /\ UNCHANGED <<jails, running, dataset, target, renamed, calls, idx, stream>>

Begin ==
    /\ MigrateOnly
    /\ pc = "loop"
    /\ idx <= NumJails
    /\ event' = [event EXCEPT ![idx] = begin(NewEvent)]
    /\ stream' = Append(stream, Emit(idx, "JailMigration", "running", "none"))
    /\ pc' = "begun"
    /\ UNCHANGED <<jails, running, dataset, target, renamed, calls, idx>>

Finish ==
    /\ MigrateOnly
    /\ pc = "loop"
    /\ idx > NumJails
    /\ pc' = "finished"
    /\ UNCHANGED <<jails, running, dataset, target, renamed, event, stream,
                   calls, idx>>

Skip ==
    /\ MigrateOnly
    /\ pc = "begun"
    /\ ShouldSkip(idx)
    /\ event' = [event EXCEPT ![idx] = skip(@)]
    /\ stream' = Append(stream, Emit(idx, "JailMigration", "skipped", "none"))
    /\ Continue
    /\ UNCHANGED <<jails, running, dataset, target, renamed, calls>>

FailRunning ==
    /\ MigrateOnly
    /\ pc = "begun"
    /\ ~ShouldSkip(idx)
    /\ IsRunning(idx)
    /\ \E ok \in RollbackOutcomes(event[idx]) :
            ExceptIocException("JailAlreadyRunning", ok, target)
    /\ UNCHANGED <<jails, running, dataset, renamed, calls>>

\* mutant: the rollback step is registered before the existence check
FailExists_RegisteredFirst ==
    /\ MigrateOnly
    /\ pc = "begun"
    /\ ~ShouldSkip(idx)
    /\ ~IsRunning(idx)
    /\ TargetExists(idx)
    /\ \E ok \in RollbackOutcomes(RegisterDestroyUncleanMigration(event[idx])) :
         /\ event' = [event EXCEPT ![idx] =
                fail(RegisterDestroyUncleanMigration(@), "JailAlreadyExists", ok)]
         /\ target' = DestroyUncleanMigration(target, idx,
                RegisterDestroyUncleanMigration(event[idx]), ok)
    /\ stream' = Append(stream,
            Emit(idx, "JailMigration", "failed", "JailAlreadyExists"))
    /\ Continue
    /\ UNCHANGED <<jails, running, dataset, renamed, calls>>

FailExists ==
    /\ MigrateOnly
    /\ pc = "begun"
    /\ ~ShouldSkip(idx)
    /\ ~IsRunning(idx)
    /\ TargetExists(idx)
    /\ \E ok \in RollbackOutcomes(event[idx]) :
            RaiseInTry("JailAlreadyExists", ok, target)
    /\ UNCHANGED <<jails, running, dataset, renamed, calls>>

StartClone ==
    /\ MigrateOnly
    /\ pc = "begun"
    /\ ~ShouldSkip(idx)
    /\ ~IsRunning(idx)
    /\ ~TargetExists(idx)
    /\ event' = [event EXCEPT ![idx] = RegisterDestroyUncleanMigration(@)]
    /\ stream' = Append(stream, Emit(idx, "JailClone", "running", "none"))
    /\ pc' = "cloning"
    /\ UNCHANGED <<jails, running, dataset, target, renamed, calls, idx>>

CloneDone ==
    /\ MigrateOnly
    /\ pc = "cloning"
    /\ target' = [target EXCEPT ![temporary_name(idx)] =
            [state |-> "complete", owner |-> idx, saved |-> FALSE,
             promoted |-> FALSE]]
    /\ calls' = [calls EXCEPT ![idx] = Append(@, Called("clone_from_jail", TRUE))]
    /\ stream' = Append(stream, Emit(idx, "JailClone", "done", "none"))
    /\ pc' = "cloned"
    /\ UNCHANGED <<jails, running, dataset, renamed, event, idx>>

CloneFail ==
    /\ MigrateOnly
    /\ pc = "cloning"
    /\ calls' = [calls EXCEPT ![idx] = Append(@, Called("clone_from_jail", FALSE))]
    /\ \E left \in {"absent", "partial"}, e \in Raised,
          ok \in RollbackOutcomes(event[idx]) :
            RaiseInTry(e, ok,
                [target EXCEPT ![temporary_name(idx)] =
                    IF left = "absent" THEN NoJail
                    ELSE [state |-> "partial", owner |-> idx, saved |-> FALSE,
                          promoted |-> FALSE]])
    /\ UNCHANGED <<jails, running, dataset, renamed>>

SaveFail ==
    /\ MigrateOnly
    /\ pc = "cloned"
    /\ calls' = [calls EXCEPT ![idx] = Append(@, Called("save", FALSE))]
    /\ \E e \in Raised, ok \in RollbackOutcomes(event[idx]) :
            RaiseInTry(e, ok, target)
    /\ UNCHANGED <<jails, running, dataset, renamed>>

\* mutant: a failure of promote is ignored and the original is destroyed
PromoteFail_Ignored ==
    /\ MigrateOnly
    /\ pc = "cloned"
    /\ calls' = [calls EXCEPT ![idx] =
            @ \o <<Called("save", TRUE), Called("promote", FALSE)>>]
    /\ target' = [target EXCEPT ![temporary_name(idx)].saved = TRUE]
    /\ stream' = Append(stream, Emit(idx, "JailDestroy", "running", "none"))
    /\ pc' = "destroying"
    /\ UNCHANGED <<jails, running, dataset, renamed, event, idx>>

PromoteFail ==
    /\ MigrateOnly
    /\ pc = "cloned"
    /\ calls' = [calls EXCEPT ![idx] =
            @ \o <<Called("save", TRUE), Called("promote", FALSE)>>]
    /\ \E e \in Raised, ok \in RollbackOutcomes(event[idx]) :
            RaiseInTry(e, ok,
                [target EXCEPT ![temporary_name(idx)].saved = TRUE])
    /\ UNCHANGED <<jails, running, dataset, renamed>>

StartDestroy ==
    /\ MigrateOnly
    /\ pc = "cloned"
    /\ calls' = [calls EXCEPT ![idx] =
            @ \o <<Called("save", TRUE), Called("promote", TRUE)>>]
    /\ target' = [target EXCEPT ![temporary_name(idx)].saved = TRUE,
                                ![temporary_name(idx)].promoted = TRUE]
    /\ stream' = Append(stream, Emit(idx, "JailDestroy", "running", "none"))
    /\ pc' = "destroying"
    /\ UNCHANGED <<jails, running, dataset, renamed, event, idx>>

DestroyDone ==
    /\ MigrateOnly
    /\ pc = "destroying"
    /\ dataset' = [dataset EXCEPT ![idx] = "absent"]
    /\ running' = [running EXCEPT ![idx] = FALSE]
    /\ calls' = [calls EXCEPT ![idx] = Append(@, Called("destroy", TRUE))]
    /\ stream' = Append(stream, Emit(idx, "JailDestroy", "done", "none"))
    /\ pc' = "destroyed"
    /\ UNCHANGED <<jails, target, renamed, event, idx>>

DestroyFail ==
    /\ MigrateOnly
    /\ pc = "destroying"
    /\ calls' = [calls EXCEPT ![idx] = Append(@, Called("destroy", FALSE))]
    /\ \E left \in {"complete", "partial"} :
            dataset' = [dataset EXCEPT ![idx] = left]
    /\ \E e \in Raised, ok \in RollbackOutcomes(event[idx]) :
            RaiseInTry(e, ok, target)
    /\ UNCHANGED <<jails, running, renamed>>

StartRename ==
    /\ MigrateOnly
    /\ pc = "destroyed"
    /\ NeedsRename(idx)
    /\ stream' = Append(stream, Emit(idx, "JailRename", "running", "none"))
    /\ pc' = "renaming"
    /\ UNCHANGED <<jails, running, dataset, target, renamed, event, calls, idx>>

RenameDone ==
    /\ MigrateOnly
    /\ pc = "renaming"
    /\ target' = [target EXCEPT ![temporary_name(idx)] = NoJail]
    /\ renamed' = [renamed EXCEPT ![idx] = TRUE]
    /\ calls' = [calls EXCEPT ![idx] = Append(@, Called("rename", TRUE))]
    /\ stream' = Append(stream, Emit(idx, "JailRename", "done", "none"))
    /\ pc' = "renamed"
    /\ UNCHANGED <<jails, running, dataset, event, idx>>

RenameFail ==
    /\ MigrateOnly
    /\ pc = "renaming"
    /\ calls' = [calls EXCEPT ![idx] = Append(@, Called("rename", FALSE))]
    /\ Propagate(target)
    /\ UNCHANGED <<jails, running, dataset, renamed>>

End ==
    /\ MigrateOnly
    /\ \/ pc = "destroyed" /\ ~NeedsRename(idx)
       \/ pc = "renamed"
    /\ event' = [event EXCEPT ![idx] = end(@)]
    /\ stream' = Append(stream, Emit(idx, "JailMigration", "done", "none"))
    /\ Continue
    /\ UNCHANGED <<jails, running, dataset, target, renamed, calls>>

----------------------------------------------------------------------------
\* The batch: every jail the filters select, in any configuration

JailConfigs == [legacy : BOOLEAN, tag : Tags, hash : HashValues]

Init ==
    /\ jails \in [JailIds -> JailConfigs]
    /\ running \in [JailIds -> BOOLEAN]
    \* the settings the code never reads are fixed
    /\ \A i \in JailIds :
         /\ (~jails[i].legacy \/ running[i]) => jails[i].tag = "web"
         /\ validate_name(jails[i].tag) => jails[i].hash = 5
    /\ dataset = [i \in JailIds |-> "complete"]
    /\ target \in [TargetNames -> {NoJail, ForeignJail}]
    /\ renamed = [i \in JailIds |-> FALSE]
    /\ event = [i \in JailIds |-> NewEvent]
    /\ stream = <<>>
    /\ calls = [i \in JailIds |-> <<>>]
    /\ pc = "loop"
    /\ idx = 1
    /\ ReleaseIdle
    /\ ZfsIdle
    /\ CliIdle
    /\ ValuesIdle

Next ==
    \/ Begin
    \/ Finish
    \/ Skip
    \/ FailRunning
    \/ FailExists
    \/ StartClone
    \/ CloneDone
    \/ CloneFail
    \/ SaveFail
    \/ PromoteFail
    \/ StartDestroy
    \/ DestroyDone
    \/ DestroyFail
    \/ StartRename
    \/ RenameDone
    \/ RenameFail
    \/ End

Spec == Init /\ [][Next]_vars

----------------------------------------------------------------------------
\* The event on its own: a workflow registers rollback steps on a running
\* event, one before each step it takes, and then fails

\* no batch is migrated
MigrateIdle ==
    /\ jails = [i \in JailIds |->
            [legacy |-> FALSE, tag |-> "web", hash |-> 5]]
    /\ running = [i \in JailIds |-> FALSE]
    /\ dataset = [i \in JailIds |-> "complete"]
    /\ target = [n \in TargetNames |-> NoJail]
    /\ renamed = [i \in JailIds |-> FALSE]
    /\ event = [i \in JailIds |-> NewEvent]
    /\ calls = [i \in JailIds |-> <<>>]
    /\ idx = 1

migrateVars == <<jails, running, dataset, target, renamed, event, calls, idx>>

WorkflowInit ==
    /\ MigrateIdle
    /\ stream = <<>>
    /\ pc = "workflow"
    /\ ReleaseIdle
    /\ ZfsIdle
    /\ CliIdle
    /\ ValuesIdle

WorkflowBegin ==
    /\ MigrateOnly
    /\ pc = "workflow"
    /\ event[idx].state = "pending"
    /\ event' = [event EXCEPT ![idx] = begin(@)]
    /\ stream' = Append(stream, Emit(idx, "Workflow", "running", "none"))
    /\ UNCHANGED <<jails, running, dataset, target, renamed, calls, pc, idx>>

WorkflowStep ==
    /\ MigrateOnly
    /\ pc = "workflow"
    /\ event[idx].state = "running"
    /\ Len(event[idx].rollback_steps) < MaxSteps
    /\ \E step \in StepIds :
            event' = [event EXCEPT ![idx] = add_rollback_step(@, step)]
    /\ UNCHANGED <<jails, running, dataset, target, renamed, stream, calls,
                   pc, idx>>

WorkflowFail ==
    /\ MigrateOnly
    /\ pc = "workflow"
    /\ event[idx].state = "running"
    /\ \E ok \in RollbackOutcomes(event[idx]) :
            event' = [event EXCEPT ![idx] = fail(@, "IocException", ok)]
    /\ stream' = Append(stream, Emit(idx, "Workflow", "failed", "IocException"))
    /\ pc' = "workflow_failed"
    /\ UNCHANGED <<jails, running, dataset, target, renamed, calls, idx>>

WorkflowNext ==
    \/ WorkflowBegin
    \/ WorkflowStep
    \/ WorkflowFail

\* the migrate batches and the workflows on one event
RollbackSpec == (Init \/ WorkflowInit) /\ [][Next \/ WorkflowNext]_vars

----------------------------------------------------------------------------
\* Release.fetch(update, fetch_updates), with fetch_updates() and update()
\* (libiocage/lib/Release.py).  fetch is a generator too: one action is the
\* code one pull runs, and a pc names the line of the yield it is suspended at.

ReleaseEvents ==
    {"FetchRelease", "ReleasePrepareStorage", "ReleaseDownload",
     "ReleaseExtraction", "ReleaseConfiguration", "ReleaseCopyBase",
     "ReleaseUpdateDownload", "RunReleaseUpdate", "ExecuteReleaseUpdate",
     "JailStart", "JailStop"}

Distributions == {"FreeBSD", "HardenedBSD"}

ReleaseInit ==
    /\ \E f \in BOOLEAN, d \in Distributions :
         release = [fetched |-> f, distribution |-> d,
                    content |-> IF f THEN "release" ELSE "none",
                    snapshot |-> FALSE, reverted |-> FALSE,
                    jail |-> "none", base |-> "stale"]
    /\ revent = [n \in ReleaseEvents |-> NewEvent]
    /\ \E u \in BOOLEAN, fu \in BOOLEAN :
         rlocal = [update |-> u, fetch_updates |-> fu,
                   release_changed |-> FALSE, changed |-> FALSE]
    /\ stream = <<>>
    /\ pc = "fetch"
    /\ MigrateIdle
    /\ ZfsIdle
    /\ CliIdle
    /\ ValuesIdle

\* the frame of an action of fetch
ReleaseOnly == UNCHANGED <<migrateVars, zfsVars, cliVars, valueVars>>

\* yield <event>.begin(), .end(), .skip(), .fail(e)
RBegin(n) ==
    /\ revent' = [revent EXCEPT ![n] = begin(@)]
    /\ stream' = Append(stream, Emit(0, n, "running", "none"))

REnd(n) ==
    /\ revent' = [revent EXCEPT ![n] = end(@)]
    /\ stream' = Append(stream, Emit(0, n, "done", "none"))

RSkip(n) ==
    /\ revent' = [revent EXCEPT ![n] = skip(@)]
    /\ stream' = Append(stream, Emit(0, n, "skipped", "none"))

RFail(n, e) ==
    /\ revent' = [revent EXCEPT ![n] = fail(@, e, <<>>)]
    /\ stream' = Append(stream, Emit(0, n, "failed", e))

\* the lines of fetch reached without a yield in between
At309 == pc \in {"f297", "f301"}
At313 == pc \in {"u429", "u445"} \/ (At309 /\ rlocal.fetch_updates # TRUE)
At321 == pc = "p487" \/ (At313 /\ rlocal.update # TRUE)

FetchBegin ==
    /\ ReleaseOnly
    /\ pc = "fetch"
    /\ ~release.fetched
    /\ RBegin("FetchRelease")
    /\ pc' = "f266"
    /\ UNCHANGED <<release, rlocal>>

FetchSkip ==
    /\ ReleaseOnly
    /\ pc = "fetch"
    /\ release.fetched
    /\ RSkip("FetchRelease")
    /\ pc' = "f301"
    /\ UNCHANGED <<release, rlocal>>

PrepareStorageBegin ==
    /\ ReleaseOnly
    /\ pc = "f266"
    /\ RBegin("ReleasePrepareStorage")
    /\ pc' = "f267"
    /\ UNCHANGED <<release, rlocal>>

PrepareStorageEnd ==
    /\ ReleaseOnly
    /\ pc = "f267"
    /\ REnd("ReleasePrepareStorage")
    /\ pc' = "f274"
    /\ UNCHANGED <<release, rlocal>>

DownloadBegin ==
    /\ ReleaseOnly
    /\ pc = "f274"
    /\ RBegin("ReleaseDownload")
    /\ pc' = "f275"
    /\ UNCHANGED <<release, rlocal>>

DownloadEnd ==
    /\ ReleaseOnly
    /\ pc = "f275"
    /\ REnd("ReleaseDownload")
    /\ pc' = "f279"
    /\ UNCHANGED <<release, rlocal>>

ExtractionBegin ==
    /\ ReleaseOnly
    /\ pc = "f279"
    /\ RBegin("ReleaseExtraction")
    /\ pc' = "f280"
    /\ UNCHANGED <<release, rlocal>>

ExtractionEnd ==
    /\ ReleaseOnly
    /\ pc = "f280"
    /\ release' = [release EXCEPT !.content = "release", !.fetched = TRUE]
    /\ REnd("ReleaseExtraction")
    /\ pc' = "f288"
    /\ UNCHANGED rlocal

ExtractionFail ==
    /\ ReleaseOnly
    /\ pc = "f280"
    /\ RFail("ReleaseExtraction", "Exception")
    /\ pc' = "f285"
    /\ UNCHANGED <<release, rlocal>>

ConfigurationBegin ==
    /\ ReleaseOnly
    /\ pc = "f288"
    /\ RBegin("ReleaseConfiguration")
    /\ pc' = "f289"
    /\ UNCHANGED <<release, rlocal>>

ConfigurationEnd ==
    /\ ReleaseOnly
    /\ pc = "f289"
    /\ REnd("ReleaseConfiguration")
    /\ pc' = "f293"
    /\ UNCHANGED <<release, rlocal>>

FetchEnd ==
    /\ ReleaseOnly
    /\ pc = "f293"
    /\ rlocal' = [rlocal EXCEPT !.release_changed = TRUE]
    /\ REnd("FetchRelease")
    /\ pc' = "f297"
    /\ UNCHANGED release

FetchUpdatesBegin ==
    /\ ReleaseOnly
    /\ At309
    /\ rlocal.fetch_updates = TRUE
    /\ RBegin("ReleaseUpdateDownload")
    /\ pc' = "u356"
    /\ UNCHANGED <<release, rlocal>>

FetchUpdatesSkip ==
    /\ ReleaseOnly
    /\ pc = "u356"
    /\ release.distribution = "HardenedBSD"
    /\ RSkip("ReleaseUpdateDownload")
    /\ pc' = "u429"
    /\ UNCHANGED <<release, rlocal>>

FetchUpdatesEnd ==
    /\ ReleaseOnly
    /\ pc = "u356"
    /\ release.distribution # "HardenedBSD"
    /\ REnd("ReleaseUpdateDownload")
    /\ pc' = "u445"
    /\ UNCHANGED <<release, rlocal>>

\* a step outside every try block raises (storage, download, configuration,
\* update download, the pre-update snapshot, the copy to the base datasets,
\* or the re-raise after a fail event): the exception leaves fetch
StepRaises ==
    /\ ReleaseOnly
    /\ pc \in {"f267", "f275", "f285", "f289", "u356", "p452", "p495", "c322"}
    /\ pc' = "raised"
    /\ UNCHANGED <<release, revent, rlocal, stream>>

UpdateBegin ==
    /\ ReleaseOnly
    /\ At313
    /\ rlocal.update = TRUE
    /\ RBegin("RunReleaseUpdate")
    /\ pc' = "p452"
    /\ UNCHANGED <<release, rlocal>>

\* dataset.snapshot(snapshot_name, recursive=True), the helper jail, and the
\* first event of jail.start()
UpdateStartJail ==
    /\ ReleaseOnly
    /\ pc = "p452"
    /\ release' = [release EXCEPT !.snapshot = TRUE, !.jail = "stopped"]
    /\ RBegin("JailStart")
    /\ pc' = "p_start"
    /\ UNCHANGED rlocal

\* mutant: the fail event is yielded before the helper jail is stopped and
\* the snapshot rolled back
UpdateExcept_YieldFirst(e, rel) ==
    /\ release' = rel
    /\ RFail("RunReleaseUpdate", e)
    /\ pc' = "p495"

\* except Exception as e: jail.stop(force=True); rollback(force=True);
\* yield runReleaseUpdateEvent.fail(e).  jail.stop is a generator (update
\* iterates it elsewhere), so the call of line 493 alone stops nothing; the
\* rollback of the snapshot can raise, and then no fail event is yielded.
UpdateExcept(e, rel) ==
    \/ /\ release' = [rel EXCEPT !.content = "release", !.reverted = TRUE]
       /\ RFail("RunReleaseUpdate", e)
       /\ pc' = "p495"
    \/ /\ release' = rel
       /\ pc' = "raised"
       /\ UNCHANGED <<revent, stream>>

JailStarted ==
    /\ ReleaseOnly
    /\ pc = "p_start"
    /\ release' = [release EXCEPT !.jail = "running"]
    /\ REnd("JailStart")
    /\ pc' = "p_started"
    /\ UNCHANGED rlocal

JailStartFails ==
    /\ ReleaseOnly
    /\ pc = "p_start"
    /\ UpdateExcept("IocException", release)
    /\ UNCHANGED rlocal

ExecuteBegin ==
    /\ ReleaseOnly
    /\ pc = "p_started"
    /\ RBegin("ExecuteReleaseUpdate")
    /\ pc' = "p_exec"
    /\ UNCHANGED <<release, rlocal>>

ExecuteEnd ==
    /\ ReleaseOnly
    /\ pc = "p_exec"
    /\ release' = [release EXCEPT !.content = "updated"]
    /\ REnd("ExecuteReleaseUpdate")
    /\ pc' = "p_execd"
    /\ UNCHANGED rlocal

\* freebsd-update: "No updates are available to install."
ExecuteSkip ==
    /\ ReleaseOnly
    /\ pc = "p_exec"
    /\ release.distribution # "HardenedBSD"
    /\ RSkip("ExecuteReleaseUpdate")
    /\ pc' = "p_execd"
    /\ UNCHANGED <<release, rlocal>>

\* the update script fails.  HardenedBSD: ReleaseUpdateFailure is raised.
\* FreeBSD: executeReleaseUpdateEvent.failed() is evaluated first, and an
\* event has no operation of that name.
ExecuteFails ==
    /\ ReleaseOnly
    /\ pc = "p_exec"
    /\ UpdateExcept(
            IF release.distribution = "HardenedBSD"
            THEN "ReleaseUpdateFailure" ELSE "AttributeError",
            [release EXCEPT !.content = "partial"])
    /\ UNCHANGED rlocal

JailStopBegin ==
    /\ ReleaseOnly
    /\ pc = "p_execd"
    /\ RBegin("JailStop")
    /\ pc' = "p_stop"
    /\ UNCHANGED <<release, rlocal>>

JailStopped ==
    /\ ReleaseOnly
    /\ pc = "p_stop"
    /\ release' = [release EXCEPT !.jail = "stopped"]
    /\ REnd("JailStop")
    /\ pc' = "p_stopped"
    /\ UNCHANGED rlocal

JailStopFails ==
    /\ ReleaseOnly
    /\ pc = "p_stop"
    /\ UpdateExcept("IocException", release)
    /\ UNCHANGED rlocal

\* _update_freebsd_jail yields True, which sets changed; _update_hbsd_jail
\* returns True, which the for loop of update never sees
UpdateEnd ==
    /\ ReleaseOnly
    /\ pc = "p_stopped"
    /\ rlocal' = [rlocal EXCEPT
            !.changed = (release.distribution # "HardenedBSD")]
    /\ REnd("RunReleaseUpdate")
    /\ pc' = "p487"
    /\ UNCHANGED release

CopyBaseBegin ==
    /\ ReleaseOnly
    /\ At321
    /\ rlocal.release_changed
    /\ RBegin("ReleaseCopyBase")
    /\ pc' = "c322"
    /\ UNCHANGED <<release, rlocal>>

CopyBaseEnd ==
    /\ ReleaseOnly
    /\ pc = "c322"
    /\ release' = [release EXCEPT !.base = "copied"]
    /\ REnd("ReleaseCopyBase")
    /\ pc' = "c324"
    /\ UNCHANGED rlocal

CopyBaseSkip ==
    /\ ReleaseOnly
    /\ At321
    /\ ~rlocal.release_changed
    /\ RSkip("ReleaseCopyBase")
    /\ pc' = "c326"
    /\ UNCHANGED <<release, rlocal>>

FetchReturn ==
    /\ ReleaseOnly
    /\ pc \in {"c324", "c326"}
    /\ pc' = "finished"
    /\ UNCHANGED <<release, revent, rlocal, stream>>

ReleaseNext ==
    \/ FetchBegin
    \/ FetchSkip
    \/ PrepareStorageBegin
    \/ PrepareStorageEnd
    \/ DownloadBegin
    \/ DownloadEnd
    \/ ExtractionBegin
    \/ ExtractionEnd
    \/ ExtractionFail
    \/ ConfigurationBegin
    \/ ConfigurationEnd
    \/ FetchEnd
    \/ FetchUpdatesBegin
    \/ FetchUpdatesSkip
    \/ FetchUpdatesEnd
    \/ StepRaises
    \/ UpdateBegin
    \/ UpdateStartJail
    \/ JailStarted
    \/ JailStartFails
    \/ ExecuteBegin
    \/ ExecuteEnd
    \/ ExecuteSkip
    \/ ExecuteFails
    \/ JailStopBegin
    \/ JailStopped
    \/ JailStopFails
    \/ UpdateEnd
    \/ CopyBaseBegin
    \/ CopyBaseEnd
    \/ CopyBaseSkip
    \/ FetchReturn

ReleaseSpec == ReleaseInit /\ [][ReleaseNext]_vars

\* the workflows that yield events: the migrate batches and Release.fetch
WorkflowsSpec == (Init \/ ReleaseInit) /\ [][Next \/ ReleaseNext]_vars

----------------------------------------------------------------------------
\* The dataset orchestrator (iocage/lib/ZFS.py) over a volume backend.
\* A dataset name "pool/s/a" is the tuple of its components, so the string
\* operations of the code on names are operations on tuples.

MaxCalls == 2

Pool == <<"pool">>
Source == <<"pool", "s">>
Targets == {<<"pool", "t">>, <<"pool", "u">>}
SnapshotSeq == <<"x", "y">>
SnapshotNames == {SnapshotSeq[k] : k \in DOMAIN SnapshotSeq}

\* the subtrees the source dataset can have
Shapes ==
    { {Source},
      {Source, Source \o <<"a">>},
      {Source, Source \o <<"a">>, Source \o <<"a", "b">>},
      {Source, Source \o <<"a">>, Source \o <<"c">>} }

Snapshot(d, sn) == [dataset |-> d, name |-> sn]
NoSnapshot == Snapshot(<<>>, "")

IsPrefix(p, d) == Len(p) <= Len(d) /\ SubSeq(d, 1, Len(p)) = p

\* "/".join(name.split("/")[:-1])
parent_name(n) == SubSeq(n, 1, Len(n) - 1)

\* dataset.children, dataset.children_recursive (as sets), and the subtree
children(st, n) == {d \in st.datasets : parent_name(d) = n}
children_recursive(st, n) == {d \in st.datasets : IsPrefix(n, d) /\ d # n}
Subtree(st, n) == {d \in st.datasets : IsPrefix(n, d)}

\* dataset.snapshots
snapshots(st, n) == {sn \in st.snapshots : sn.dataset = n}

\* dataset.properties["origin"].value, NoSnapshot for the empty string
Origin(st, n) ==
    IF \E o \in st.origin : o.dataset = n
    THEN (CHOOSE o \in st.origin : o.dataset = n).snapshot
    ELSE NoSnapshot

\* the orders in which the backend can enumerate a set of datasets
Orders(S) ==
    {f \in [1..Cardinality(S) -> S] : \A i, j \in DOMAIN f : f[i] = f[j] => i = j}

\* the invocation of delete_dataset_recursive an operation belongs to
Invocation(d, ds, dos) ==
    [dataset |-> d, delete_snapshots |-> ds, delete_origin_snapshot |-> dos]
NoInvocation == Invocation(<<>>, FALSE, FALSE)

\* a backend operation in the log of a call: what was called on what, from
\* which line of ZFS.py, and whether it succeeded
Op(op, d, sn, line, by) ==
    [op |-> op, dataset |-> d, snapshot |-> sn, line |-> line, by |-> by,
     ok |-> TRUE]

\* an execution is a store, the log of the backend operations and the
\* exception that is propagating ("" for none); after an exception every
\* further operation is skipped
Execution(st) == [st |-> st, log |-> <<>>, err |-> ""]

Done(x, o, st) == [x EXCEPT !.st = st, !.log = Append(@, o)]
Raise(x, o, e) ==
    [x EXCEPT !.err = e, !.log = Append(@, [o EXCEPT !.ok = FALSE])]

\* ---- the volume backend (libzfs) ----

umount(x, d, line, by) ==
    IF x.err # "" THEN x
    ELSE Done(x, Op("umount", d, NoSnapshot, line, by),
              [x.st EXCEPT !.mounted = @ \ {d}])

mount(x, d, line) ==
    IF x.err # "" THEN x
    ELSE Done(x, Op("mount", d, NoSnapshot, line, NoInvocation),
              [x.st EXCEPT !.mounted = @ \cup {d}])

\* a dataset with children or snapshots cannot be deleted
delete(x, d, line, by) ==
    IF x.err # "" THEN x
    ELSE IF children(x.st, d) # {} \/ snapshots(x.st, d) # {}
    THEN Raise(x, Op("delete", d, NoSnapshot, line, by), "ZFSException")
    ELSE Done(x, Op("delete", d, NoSnapshot, line, by),
              [x.st EXCEPT !.datasets = @ \ {d},
                           !.mounted = @ \ {d},
                           !.origin = {o \in @ : o.dataset # d}])

get_snapshot(x, sn, line, by) ==
    IF x.err # "" THEN x
    ELSE IF sn \notin x.st.snapshots
    THEN Raise(x, Op("get_snapshot", sn.dataset, sn, line, by), "ZFSException")
    ELSE Done(x, Op("get_snapshot", sn.dataset, sn, line, by), x.st)

\* a snapshot a clone still depends on cannot be deleted
delete_snapshot(x, sn, line, by) ==
    IF x.err # "" THEN x
    ELSE IF \E o \in x.st.origin : o.snapshot = sn
    THEN Raise(x, Op("delete_snapshot", sn.dataset, sn, line, by),
               "ZFSException")
    ELSE Done(x, Op("delete_snapshot", sn.dataset, sn, line, by),
              [x.st EXCEPT !.snapshots = @ \ {sn}])

\* dataset.snapshot(snapshot_name, recursive=True): all of the subtree or nothing
snapshot(x, d, snapshot_name, line) ==
    IF x.err # "" THEN x
    ELSE IF \E e \in Subtree(x.st, d) : Snapshot(e, snapshot_name) \in x.st.snapshots
    THEN Raise(x, Op("snapshot", d, Snapshot(d, snapshot_name), line, NoInvocation),
               "ZFSException")
    ELSE Done(x, Op("snapshot", d, Snapshot(d, snapshot_name), line, NoInvocation),
              [x.st EXCEPT !.snapshots =
                    @ \cup {Snapshot(e, snapshot_name) : e \in Subtree(x.st, d)}])

\* snapshot.clone(target): the new dataset depends on the snapshot
clone(x, sn, t, line) ==
    IF x.err # "" THEN x
    ELSE IF \/ sn \notin x.st.snapshots
            \/ t \in x.st.datasets
            \/ parent_name(t) \notin x.st.datasets
    THEN Raise(x, Op("clone", t, sn, line, NoInvocation), "ZFSException")
    ELSE Done(x, Op("clone", t, sn, line, NoInvocation),
              [x.st EXCEPT !.datasets = @ \cup {t},
                           !.origin = @ \cup {[dataset |-> t, snapshot |-> sn]}])

\* pool.create(name, create_ancestors=True)
create(x, d, line) ==
    IF x.err # "" THEN x
    ELSE IF d \in x.st.datasets
    THEN Raise(x, Op("create", d, NoSnapshot, line, NoInvocation),
               "ZFSException")
    ELSE Done(x, Op("create", d, NoSnapshot, line, NoInvocation),
              [x.st EXCEPT !.datasets =
                    @ \cup {SubSeq(d, 1, k) : k \in 1..Len(d)}])

\* dataset.promote(): the clone takes over its origin snapshot from the
\* dataset it was cloned from, which becomes a clone of that snapshot in turn
\* (as does every other clone of it); if the other dataset was a clone
\* itself, the promoted dataset inherits its origin.  A dataset without an
\* origin cannot be promoted, nor one that has a snapshot of the same name.
promote(x, d, line) ==
    IF x.err # "" THEN x
    ELSE LET o == Origin(x.st, d)
             moved == Snapshot(d, o.name)
             inherited == Origin(x.st, o.dataset)
         IN  IF o = NoSnapshot \/ moved \in x.st.snapshots
             THEN Raise(x, Op("promote", d, o, line, NoInvocation),
                        "ZFSException")
             ELSE Done(x, Op("promote", d, o, line, NoInvocation),
                    [x.st EXCEPT
                        !.snapshots = (@ \ {o}) \cup {moved},
                        !.origin =
                            {p \in @ : p.dataset \notin {d, o.dataset}
                                       /\ p.snapshot # o}
                            \cup {[dataset |-> p.dataset, snapshot |-> moved] :
                                    p \in {q \in @ : q.snapshot = o
                                                     /\ q.dataset # d}}
                            \cup {[dataset |-> o.dataset, snapshot |-> moved]}
                            \cup (IF inherited = NoSnapshot THEN {}
                                  ELSE {[dataset |-> d,
                                         snapshot |-> inherited]})])

\* ---- ZFS.py ----

create_dataset(x, dataset_name, line) ==
    mount(create(x, dataset_name, line), dataset_name, line)

\* mutant: the dataset is created without looking for it first
get_or_create_dataset_AlwaysCreate(x, dataset_name, line) ==
    create_dataset(x, dataset_name, line)

get_or_create_dataset(x, dataset_name, line) ==
    IF x.err # "" \/ dataset_name \in x.st.datasets THEN x
    ELSE create_dataset(x, dataset_name, line)

\* the members of a set in the order of an enumeration
InOrder(ord, S) == SelectSeq(ord, LAMBDA d : d \in S)

\* mutant: the dataset is deleted while mounted
UmountIfMounted_Never(x, dset, line, by) == x

\* if dataset.mountpoint is not None: dataset.umount()
UmountIfMounted(x, dset, line, by) ==
    IF x.err = "" /\ dset \in x.st.mounted
    THEN umount(x, dset, line, by)
    ELSE x

\* mutant: the origin is looked up whatever the flag says
origin_Always(st, dset, delete_origin_snapshot) == Origin(st, dset)

\* origin = None; if delete_origin_snapshot is True: the origin property, if
\* its value is not ""
origin(st, dset, delete_origin_snapshot) ==
    IF delete_origin_snapshot /\ Origin(st, dset) # NoSnapshot
    THEN Origin(st, dset)
    ELSE NoSnapshot

\* for snapshot in dataset.snapshots: snapshot.delete(), the snapshots
\* enumerated in the order of SnapshotSeq
RECURSIVE DeleteSnapshots(_, _, _, _)
DeleteSnapshots(x, dset, todo, by) ==
    IF todo = <<>> THEN x
    ELSE DeleteSnapshots(
            delete_snapshot(x, Snapshot(dset, Head(todo)), 111, by),
            dset, Tail(todo), by)

RECURSIVE delete_dataset_recursive(_, _, _, _, _)
RECURSIVE DeleteChildren(_, _, _)

\* mutant: the flags of the call are handed down as false to the children
RECURSIVE DeleteChildren_FlagsOff(_, _, _)
DeleteChildren_FlagsOff(x, todo, ord) ==
    IF todo = <<>> THEN x
    ELSE DeleteChildren_FlagsOff(
            delete_dataset_recursive(x, Head(todo), FALSE, FALSE, ord),
            Tail(todo), ord)

\* for child in dataset.children: self.delete_dataset_recursive(child)
DeleteChildren(x, todo, ord) ==
    IF todo = <<>> THEN x
    ELSE DeleteChildren(
            delete_dataset_recursive(x, Head(todo), TRUE, TRUE, ord),
            Tail(todo), ord)

delete_dataset_recursive(x, dset, delete_snapshots, delete_origin_snapshot, ord) ==
    LET by == Invocation(dset, delete_snapshots, delete_origin_snapshot)
        x1 == DeleteChildren(x, InOrder(ord, children(x.st, dset)), ord)
        x2 == UmountIfMounted(x1, dset, 103, by)
        x3 == IF delete_snapshots
              THEN DeleteSnapshots(x2, dset,
                    SelectSeq(SnapshotSeq,
                        LAMBDA n : Snapshot(dset, n) \in x2.st.snapshots), by)
              ELSE x2
        org == origin(x3.st, dset, delete_origin_snapshot)
        x4 == delete(x3, dset, 121, by)
    IN  IF org # NoSnapshot
        THEN delete_snapshot(get_snapshot(x4, org, 126, by), org, 127, by)
        ELSE x4

_clone_and_mount(x, sn, tgt, line) ==
    LET x1 == get_or_create_dataset(x, parent_name(tgt), line)
        x2 == clone(x1, sn, tgt, line)
    IN  mount(x2, tgt, line)

\* mutant: an existing target is deleted whatever delete_existing says
DeleteExistingTarget_Always(x, tgt, delete_existing) ==
    IF tgt \notin x.st.datasets THEN x
    ELSE delete(UmountIfMounted(x, tgt, 153, NoInvocation),
                tgt, 154, NoInvocation)

\* delete target dataset if it already exists
DeleteExistingTarget(x, tgt, delete_existing) ==
    IF tgt \notin x.st.datasets THEN x
    ELSE IF ~delete_existing THEN [x EXCEPT !.err = "DatasetExists"]
    ELSE delete(UmountIfMounted(x, tgt, 153, NoInvocation),
                tgt, 154, NoInvocation)

\* for dataset in [source] + source.children_recursive: get the snapshot of
\* that name and delete it
RECURSIVE DeleteExistingSnapshots(_, _, _)
DeleteExistingSnapshots(x, todo, snapshot_name) ==
    IF todo = <<>> THEN x
    ELSE LET sn == Snapshot(Head(todo), snapshot_name)
         IN  DeleteExistingSnapshots(
                delete_snapshot(get_snapshot(x, sn, 168, NoInvocation),
                                sn, 169, NoInvocation),
                Tail(todo), snapshot_name)

\* mutant: every descendant is cloned directly under the target
current_target_Flat(source, tgt, dset) ==
    tgt \o <<dset[Len(dset)]>>

\* f"{target}/{dataset.name[len(source.name):].strip('/')}"
current_target(source, tgt, dset) ==
    tgt \o SubSeq(dset, Len(source) + 1, Len(dset))

\* mutant: a descendant whose clone fails is skipped and the loop goes on
RECURSIVE CloneChildren_SkipFailed(_, _, _, _, _)
CloneChildren_SkipFailed(x, todo, source, tgt, snapshot_name) ==
    IF todo = <<>> \/ x.err # "" THEN x
    ELSE LET current_snapshot == Snapshot(Head(todo), snapshot_name)
             x1 == get_snapshot(x, current_snapshot, 186, NoInvocation)
             x2 == _clone_and_mount(x1, current_snapshot,
                        tgt \o SubSeq(Head(todo), Len(source) + 1,
                                      Len(Head(todo))), 190)
         IN  CloneChildren_SkipFailed([x2 EXCEPT !.err = ""], Tail(todo),
                                      source, tgt, snapshot_name)

\* for dataset in source.children_recursive: clone its snapshot
RECURSIVE CloneChildren(_, _, _, _, _)
CloneChildren(x, todo, source, tgt, snapshot_name) ==
    IF todo = <<>> THEN x
    ELSE LET current_snapshot == Snapshot(Head(todo), snapshot_name)
             x1 == get_snapshot(x, current_snapshot, 186, NoInvocation)
             x2 == _clone_and_mount(x1, current_snapshot,
                        current_target(source, tgt, Head(todo)), 190)
         IN  CloneChildren(x2, Tail(todo), source, tgt, snapshot_name)

\* ord is the order in which source.children_recursive enumerates
clone_dataset(x, source, tgt, snapshot_name, delete_existing, ord) ==
    LET _snapshot_name == Snapshot(source, snapshot_name)
        x1 == DeleteExistingTarget(x, tgt, delete_existing)
        existing_snapshots ==
            {sn \in x1.st.snapshots :
                sn.name = snapshot_name /\ sn.dataset \in Subtree(x1.st, source)}
        x2 == IF x1.err = "" /\ existing_snapshots # {}
              THEN DeleteExistingSnapshots(x1, <<source>> \o ord, snapshot_name)
              ELSE x1
        x3 == snapshot(x2, source, snapshot_name, 172)
        x4 == get_snapshot(x3, _snapshot_name, 173, NoInvocation)
        x5 == _clone_and_mount(x4, _snapshot_name, tgt, 181)
    IN  CloneChildren(x5, ord, source, tgt, snapshot_name)

\* mutant: the dataset itself is left out
PromotionOrder_DescendantsOnly(dset, ord) ==
    [k \in 1..Len(ord) |-> ord[Len(ord) + 1 - k]]

\* list(reversed(list(dataset.children_recursive))) + [dataset]
PromotionOrder(dset, ord) ==
    [k \in 1..Len(ord) |-> ord[Len(ord) + 1 - k]] \o <<dset>>

\* self._promote(child, logger=logger)
_promote(x, dset) == promote(x, dset, 214)

\* for child in datasets: self._promote(child, logger=logger)
RECURSIVE PromoteAll(_, _)
PromoteAll(x, todo) ==
    IF todo = <<>> THEN x
    ELSE PromoteAll(_promote(x, Head(todo)), Tail(todo))

\* ord is the order in which dataset.children_recursive enumerates
promote_dataset(x, dset, ord) == PromoteAll(x, PromotionOrder(dset, ord))

\* ---- one action per call of a method ----

ZfsOnly == UNCHANGED <<migrateVars, releaseVars, cliVars, valueVars, stream, pc>>

Call(method, dset, tgt, snapshot_name, flags, x) ==
    [method |-> method, dataset |-> dset, target |-> tgt,
     snapshot_name |-> snapshot_name, flags |-> flags,
     pre |-> zfs, post |-> x.st, log |-> x.log, err |-> x.err]

Returned(method, dset, tgt, snapshot_name, flags, x) ==
    /\ zfs' = x.st
    /\ zcall' = Append(zcall,
            Call(method, dset, tgt, snapshot_name, flags, x))
    /\ ncalls' = ncalls + 1

ZfsInit ==
    /\ \E shape \in Shapes, m \in BOOLEAN, others \in {{}, {<<"pool", "t">>}} :
       \E snaps \in SUBSET {Snapshot(d, "x") : d \in shape} :
            zfs = [datasets |-> {Pool} \cup shape \cup others,
                   mounted |-> IF m THEN {Pool} \cup shape \cup others
                               ELSE {Pool},
                   snapshots |-> snaps,
                   origin |-> {}]
    /\ zcall = <<>>
    /\ ncalls = 0
    /\ MigrateIdle
    /\ ReleaseIdle
    /\ CliIdle
    /\ ValuesIdle
    /\ stream = <<>>
    /\ pc = "zfs"

CloneDataset ==
    /\ ZfsOnly
    /\ ncalls < MaxCalls
    /\ Source \in zfs.datasets
    /\ \E tgt \in Targets, snapshot_name \in SnapshotNames,
          delete_existing \in BOOLEAN,
          ord \in Orders(children_recursive(zfs, Source)) :
            Returned("clone_dataset", Source, tgt, snapshot_name,
                <<delete_existing>>,
                clone_dataset(Execution(zfs), Source, tgt, snapshot_name,
                              delete_existing, ord))

\* the datasets delete_dataset_recursive is called on
DeleteRoots == {Source, Source \o <<"a">>} \cup Targets

DeleteDatasetRecursive ==
    /\ ZfsOnly
    /\ ncalls < MaxCalls
    /\ \E dset \in DeleteRoots \cap zfs.datasets,
          delete_snapshots \in BOOLEAN, delete_origin_snapshot \in BOOLEAN :
       \E ord \in Orders(children_recursive(zfs, dset)) :
            Returned("delete_dataset_recursive", dset, <<>>, "",
                <<delete_snapshots, delete_origin_snapshot>>,
                delete_dataset_recursive(Execution(zfs), dset,
                    delete_snapshots, delete_origin_snapshot, ord))

\* promote_dataset is called on the dataset of a cloned jail
PromoteDataset ==
    /\ ZfsOnly
    /\ ncalls < MaxCalls
    /\ \E dset \in Targets \cap zfs.datasets :
       \E ord \in Orders(children_recursive(zfs, dset)) :
            Returned("promote_dataset", dset, <<>>, "", <<>>,
                promote_dataset(Execution(zfs), dset, ord))

\* the names get_or_create_dataset is called with: one that may exist, one
\* that is missing under an existing parent or exists, one whose parent may
\* be missing too
GetOrCreateNames == {Source, <<"pool", "t">>, <<"pool", "u", "v">>}

GetOrCreateDataset ==
    /\ ZfsOnly
    /\ ncalls < MaxCalls
    /\ \E dataset_name \in GetOrCreateNames :
            Returned("get_or_create_dataset", dataset_name, <<>>, "", <<>>,
                get_or_create_dataset(Execution(zfs), dataset_name, 73))

ZfsNext ==
    \/ CloneDataset
    \/ DeleteDatasetRecursive
    \/ PromoteDataset
    \/ GetOrCreateDataset

ZfsSpec == ZfsInit /\ [][ZfsNext]_vars

----------------------------------------------------------------------------
\* ioc start (src/ioc_cli/start.py, src/ioc_cli/shared/jail.py) and the exit
\* status of ioc migrate (src/ioc_cli/migrate.py, cli)

StartIds == 1..NumJails
Priorities == 1..NumJails

\* an element of the option tuple: "key=value" sets, "key" deletes
Setter(key, value) == [setter |-> TRUE, key |-> key, value |-> value]
Deleter(key) == [setter |-> FALSE, key |-> key, value |-> 0]
Properties ==
    {Setter("a", 1), Setter("a", 0), Setter("bad", 1),
     Deleter("b"), Deleter("c")}
Overrides ==
    {<<>>} \cup {<<p>> : p \in Properties}
           \cup {<<p, q>> : p \in Properties, q \in Properties}

\* the configuration of a jail: -1 is a property the user has not set
Unset == 0 - 1
DefaultConfig == [a |-> 0, b |-> 1, c |-> Unset]

\* target.config.set(key, value): tells whether the value changed, raises
\* on a property the configuration does not know
config_set(config, key, value) ==
    IF key \notin DOMAIN config
    THEN [config |-> config, changed |-> FALSE, err |-> "IocException"]
    ELSE [config |-> [config EXCEPT ![key] = value],
          changed |-> config[key] # value, err |-> ""]

\* del target.config[key]: raises on a property that is not set
config_del(config, key) ==
    IF key \notin DOMAIN config
    THEN [config |-> config, err |-> "IocException"]
    ELSE IF config[key] = Unset
    THEN [config |-> config, err |-> "KeyError"]
    ELSE [config |-> [config EXCEPT ![key] = Unset], err |-> ""]

\* target.save(): the configuration on disk becomes the one in memory; saves
\* counts the calls
save(tgt) == [tgt EXCEPT !.saved = tgt.config, !.saves = @ + 1]

_is_setter_property(property_string) == property_string.setter

\* mutant: a key whose deletion raised is reported as updated
RECURSIVE SetEach_ReportsAbsent(_, _, _)
SetEach_ReportsAbsent(properties, k, r) ==
    IF k > Len(properties) \/ r.err # "" THEN r
    ELSE LET prop == properties[k] IN
         IF _is_setter_property(prop)
         THEN LET res == config_set(r.target.config, prop.key, prop.value) IN
              IF res.err # ""
              THEN [r EXCEPT !.err = res.err]
              ELSE SetEach_ReportsAbsent(properties, k + 1,
                      [r EXCEPT !.target.config = res.config,
                                !.updated = IF res.changed
                                            THEN @ \cup {prop.key} ELSE @])
         ELSE LET res == config_del(r.target.config, prop.key) IN
              SetEach_ReportsAbsent(properties, k + 1,
                      [r EXCEPT !.target.config = res.config,
                                !.updated = @ \cup {prop.key}])

\* the for loop of set_properties from property k on; it ends at the first
\* error that config.set raises, an error of del is passed over
RECURSIVE SetEach(_, _, _)
SetEach(properties, k, r) ==
    IF k > Len(properties) \/ r.err # "" THEN r
    ELSE LET prop == properties[k] IN
         IF _is_setter_property(prop)
         THEN LET res == config_set(r.target.config, prop.key, prop.value) IN
              IF res.err # ""
              THEN SetEach(properties, k + 1, [r EXCEPT !.err = res.err])
              ELSE SetEach(properties, k + 1,
                      [r EXCEPT !.target.config = res.config,
                                !.updated = IF res.changed
                                            THEN @ \cup {prop.key} ELSE @])
         ELSE LET res == config_del(r.target.config, prop.key) IN
              IF res.err # ""
              THEN SetEach(properties, k + 1, r)
              ELSE SetEach(properties, k + 1,
                      [r EXCEPT !.target.config = res.config,
                                !.updated = @ \cup {prop.key}])

\* mutant: the jail is saved whatever autosave says
set_properties_AlwaysSave(properties, tgt, autosave) ==
    LET r == SetEach(properties, 1,
                     [target |-> tgt, updated |-> {}, err |-> ""])
    IN  IF r.err = "" /\ Cardinality(r.updated) > 0
        THEN [r EXCEPT !.target = save(r.target)]
        ELSE r

set_properties(properties, tgt, autosave) ==
    LET r == SetEach(properties, 1,
                     [target |-> tgt, updated |-> {}, err |-> ""])
    IN  IF r.err = "" /\ Cardinality(r.updated) > 0 /\ autosave = TRUE
        THEN [r EXCEPT !.target = save(r.target)]
        ELSE r

\* list(ioc_jails): the jails in the order the host enumerates them
list(js) == [k \in 1..Len(js) |-> k]

\* mutant: the jails are started in the order of their enumeration
sorted_Unsorted(js) == list(js)

\* sorted(list(ioc_jails), key=lambda x: x.config["priority"]): a stable
\* sort, each jail is inserted behind those of at most its priority
InsertByPriority(js, s, i) ==
    LET k == Cardinality({m \in 1..Len(s) :
                            js[s[m]].priority <= js[i].priority})
    IN  SubSeq(s, 1, k) \o <<i>> \o SubSeq(s, k + 1, Len(s))

RECURSIVE SortFirst(_, _)
SortFirst(js, n) ==
    IF n = 0 THEN <<>> ELSE InsertByPriority(js, SortFirst(js, n - 1), n)

sorted(js) == SortFirst(js, Len(js))

StartInit ==
    /\ \E n \in 0..NumJails :
         ioc_jails \in [1..n -> [priority : Priorities, running : BOOLEAN,
                                 config : {DefaultConfig},
                                 saved : {DefaultConfig}, saves : {0}]]
    /\ \E rc \in BOOLEAN, selectors \in 0..1, o \in Overrides :
         cli = [rc |-> rc, selectors |-> selectors,
                temporary_config_override |-> o,
                jails |-> <<>>, pos |-> 1, started |-> <<>>,
                changed_jails |-> <<>>, skipped_jails |-> <<>>,
                failed_jails |-> <<>>]
    /\ exit_code = -1
    /\ pc = "cli"
    /\ stream = <<>>
    /\ MigrateIdle
    /\ ReleaseIdle
    /\ ZfsIdle
    /\ ValuesIdle

StartOnly == UNCHANGED <<migrateVars, releaseVars, zfsVars, valueVars, stream>>

\* exit(status)
Exit(status) ==
    /\ exit_code' = status
    /\ pc' = "exited"

\* the jail the for loop is at
InLoop == cli.pos <= Len(cli.jails)
Jail == cli.jails[cli.pos]

\* continue, or the end of the loop body
NextJail(c) == [c EXCEPT !.pos = @ + 1]

\* cli: neither --rc nor a jail selector
StartNoSelector ==
    /\ StartOnly
    /\ pc = "cli"
    /\ cli.rc = FALSE /\ cli.selectors = 0
    /\ Exit(1)
    /\ UNCHANGED <<ioc_jails, cli>>

\* cli: --rc together with jail selectors
StartRcWithSelectors ==
    /\ StartOnly
    /\ pc = "cli"
    /\ cli.rc = TRUE /\ cli.selectors > 0
    /\ Exit(1)
    /\ UNCHANGED <<ioc_jails, cli>>

\* cli calls _autostart, which sorts the jails by their priority
Autostart ==
    /\ StartOnly
    /\ pc = "cli"
    /\ cli.rc = TRUE /\ cli.selectors = 0
    /\ cli' = [cli EXCEPT !.jails = sorted(ioc_jails)]
    /\ pc' = "autostart"
    /\ UNCHANGED <<ioc_jails, exit_code>>

\* _autostart: the jail is running already
AutostartSkip ==
    /\ StartOnly
    /\ pc = "autostart"
    /\ InLoop
    /\ ioc_jails[Jail].running = TRUE
    /\ cli' = NextJail(cli)
    /\ UNCHANGED <<ioc_jails, exit_code, pc>>

\* _autostart: jail.start() returns
AutostartStart ==
    /\ StartOnly
    /\ pc = "autostart"
    /\ InLoop
    /\ ioc_jails[Jail].running # TRUE
    /\ ioc_jails' = [ioc_jails EXCEPT ![Jail].running = TRUE]
    /\ cli' = NextJail([cli EXCEPT !.started = Append(@, Jail)])
    /\ UNCHANGED <<exit_code, pc>>

\* _autostart: jail.start() raises
AutostartStartFails ==
    /\ StartOnly
    /\ pc = "autostart"
    /\ InLoop
    /\ ioc_jails[Jail].running # TRUE
    /\ cli' = NextJail([cli EXCEPT !.started = Append(@, Jail),
                                   !.failed_jails = Append(@, Jail)])
    /\ UNCHANGED <<ioc_jails, exit_code, pc>>

\* _autostart: after the loop
AutostartExit ==
    /\ StartOnly
    /\ pc = "autostart"
    /\ ~InLoop
    /\ Exit(IF Len(cli.failed_jails) > 0 THEN 1 ELSE 0)
    /\ UNCHANGED <<ioc_jails, cli>>

\* cli calls _normal, which takes the jails as they are enumerated
Normal ==
    /\ StartOnly
    /\ pc = "cli"
    /\ cli.rc = FALSE /\ cli.selectors > 0
    /\ cli' = [cli EXCEPT !.jails = list(ioc_jails)]
    /\ pc' = "normal"
    /\ UNCHANGED <<ioc_jails, exit_code>>

\* _normal: the overrides are applied to the jail
NormalSetProperties ==
    /\ StartOnly
    /\ pc = "normal"
    /\ InLoop
    /\ LET r == set_properties(cli.temporary_config_override,
                               ioc_jails[Jail], FALSE)
       IN  /\ r.err = ""
           /\ ioc_jails' = [ioc_jails EXCEPT ![Jail] = r.target]
    /\ pc' = "normal_try"
    /\ UNCHANGED <<cli, exit_code>>

\* _normal: set_properties raises, the command exits
NormalSetPropertiesFails ==
    /\ StartOnly
    /\ pc = "normal"
    /\ InLoop
    /\ LET r == set_properties(cli.temporary_config_override,
                               ioc_jails[Jail], FALSE)
       IN  /\ r.err = "IocException"
           /\ ioc_jails' = [ioc_jails EXCEPT ![Jail] = r.target]
    /\ Exit(1)
    /\ UNCHANGED cli

\* _normal: the jail is running already
NormalSkip ==
    /\ StartOnly
    /\ pc = "normal_try"
    /\ ioc_jails[Jail].running = TRUE
    /\ cli' = NextJail([cli EXCEPT !.skipped_jails = Append(@, Jail)])
    /\ pc' = "normal"
    /\ UNCHANGED <<ioc_jails, exit_code>>

\* _normal: the events of jail.start() are printed to their end
NormalStart ==
    /\ StartOnly
    /\ pc = "normal_try"
    /\ ioc_jails[Jail].running # TRUE
    /\ ioc_jails' = [ioc_jails EXCEPT ![Jail].running = TRUE]
    /\ cli' = NextJail([cli EXCEPT !.started = Append(@, Jail),
                                   !.changed_jails = Append(@, Jail)])
    /\ pc' = "normal"
    /\ UNCHANGED exit_code

\* _normal: jail.start() raises while its events are printed
NormalStartFails ==
    /\ StartOnly
    /\ pc = "normal_try"
    /\ ioc_jails[Jail].running # TRUE
    /\ cli' = NextJail([cli EXCEPT !.started = Append(@, Jail),
                                   !.failed_jails = Append(@, Jail)])
    /\ pc' = "normal"
    /\ UNCHANGED <<ioc_jails, exit_code>>

\* what _normal returns
start_normal_successful ==
    IF Len(cli.failed_jails) > 0 THEN FALSE
    ELSE IF Len(cli.changed_jails) = 0 /\ Len(cli.skipped_jails) = 0 THEN FALSE
    ELSE TRUE

\* _normal returns; cli exits with 1 or returns, and the process ends with 0
NormalReturn ==
    /\ StartOnly
    /\ pc = "normal"
    /\ ~InLoop
    /\ Exit(IF start_normal_successful = FALSE THEN 1 ELSE 0)
    /\ UNCHANGED <<ioc_jails, cli>>

StartNext ==
    \/ StartNoSelector
    \/ StartRcWithSelectors
    \/ Autostart
    \/ AutostartSkip
    \/ AutostartStart
    \/ AutostartStartFails
    \/ AutostartExit
    \/ Normal
    \/ NormalSetProperties
    \/ NormalSetPropertiesFails
    \/ NormalSkip
    \/ NormalStart
    \/ NormalStartFails
    \/ NormalReturn

StartSpec == StartInit /\ [][StartNext]_vars

\* migrate: print_events has pulled the generator to its end and cli returns
MigrateCliReturn ==
    /\ pc = "finished"
    /\ Exit(0)
    /\ UNCHANGED <<migrateVars, releaseVars, zfsVars, valueVars, stream,
                   ioc_jails, cli>>

\* migrate: the error the generator raised leaves cli, the interpreter ends
MigrateCliRaises ==
    /\ pc = "raised"
    /\ Exit(1)
    /\ UNCHANGED <<migrateVars, releaseVars, zfsVars, valueVars, stream,
                   ioc_jails, cli>>

MigrateCliNext ==
    \/ Next
    \/ MigrateCliReturn
    \/ MigrateCliRaises

\* ioc set (src/ioc_cli/set.py): the properties are set on host.defaults or
\* on every jail the name selects

\* a call of set_properties: the target before it and what the call gave
Returns(tgt, r) == [pre |-> tgt, updated |-> r.updated, err |-> r.err,
                    post |-> r.target]

SetInit ==
    /\ \E n \in 0..NumJails :
         ioc_jails = [i \in 1..n |->
                        [priority |-> 1, running |-> FALSE,
                         config |-> DefaultConfig, saved |-> DefaultConfig,
                         saves |-> 0]]
    /\ \E props \in Overrides, jail \in {"defaults", "web"} :
         cli = [props |-> props, jail |-> jail,
                defaults |-> [priority |-> 1, running |-> FALSE,
                              config |-> DefaultConfig,
                              saved |-> DefaultConfig, saves |-> 0],
                pos |-> 1, updated_jail_count |-> 0, returned |-> <<>>]
    /\ exit_code = -1
    /\ pc = "set"
    /\ stream = <<>>
    /\ MigrateIdle
    /\ ReleaseIdle
    /\ ZfsIdle
    /\ ValuesIdle

\* cli: jail is "defaults" and set_properties returns
SetDefaults ==
    /\ StartOnly
    /\ pc = "set"
    /\ cli.jail = "defaults"
    /\ LET r == set_properties(cli.props, cli.defaults, TRUE)
       IN  /\ r.err = ""
           /\ cli' = [cli EXCEPT !.defaults = r.target,
                        !.returned = Append(@, Returns(cli.defaults, r))]
    /\ Exit(0)
    /\ UNCHANGED ioc_jails

\* cli: jail is "defaults" and set_properties raises
SetDefaultsFails ==
    /\ StartOnly
    /\ pc = "set"
    /\ cli.jail = "defaults"
    /\ LET r == set_properties(cli.props, cli.defaults, TRUE)
       IN  /\ r.err = "IocException"
           /\ cli' = [cli EXCEPT !.defaults = r.target,
                        !.returned = Append(@, Returns(cli.defaults, r))]
    /\ Exit(1)
    /\ UNCHANGED ioc_jails

\* cli: set_properties returns for the next jail of the name
SetJail ==
    /\ StartOnly
    /\ pc = "set"
    /\ cli.jail # "defaults"
    /\ cli.pos <= Len(ioc_jails)
    /\ LET r == set_properties(cli.props, ioc_jails[cli.pos], TRUE)
       IN  /\ r.err = ""
           /\ ioc_jails' = [ioc_jails EXCEPT ![cli.pos] = r.target]
           /\ cli' = [cli EXCEPT
                    !.returned = Append(@, Returns(ioc_jails[cli.pos], r)),
                    !.updated_jail_count = @ + 1,
                    !.pos = @ + 1]
    /\ UNCHANGED <<exit_code, pc>>

\* cli: set_properties raises for the next jail of the name
SetJailFails ==
    /\ StartOnly
    /\ pc = "set"
    /\ cli.jail # "defaults"
    /\ cli.pos <= Len(ioc_jails)
    /\ LET r == set_properties(cli.props, ioc_jails[cli.pos], TRUE)
       IN  /\ r.err = "IocException"
           /\ ioc_jails' = [ioc_jails EXCEPT ![cli.pos] = r.target]
           /\ cli' = [cli EXCEPT
                    !.returned = Append(@, Returns(ioc_jails[cli.pos], r))]
    /\ Exit(1)

\* cli: after the loop
SetExit ==
    /\ StartOnly
    /\ pc = "set"
    /\ cli.jail # "defaults"
    /\ cli.pos > Len(ioc_jails)
    /\ Exit(IF cli.updated_jail_count = 0 THEN 1 ELSE 0)
    /\ UNCHANGED <<ioc_jails, cli>>

SetNext ==
    \/ SetDefaults
    \/ SetDefaultsFails
    \/ SetJail
    \/ SetJailFails
    \/ SetExit

\* the commands that call set_properties: set saves, start does not
PropertiesSpec == (SetInit \/ StartInit) /\ [][SetNext \/ StartNext]_vars

\* the two batch commands
CliSpec == (Init \/ StartInit) /\ [][MigrateCliNext \/ StartNext]_vars

\* Resource limits (src/iocage/lib/Config/Jail/Properties/ResourceLimit.py)

\* a string is the sequence of its pieces: the three delimiters of the
\* grammar and words without a delimiter
Alphabet == {"128M", "deny", "jail", "=", ":", "/"}
MaxLen == 5
Texts == UNION {[1..n -> Alphabet] : n \in 0..MaxLen}

\* None, which is no string
None == <<"None">>

\* what set is given: None, a string, an integer, a value, anything else
Data(kind, text, int, value) ==
    [kind |-> kind, text |-> text, int |-> int, value |-> value]
Value(amount, action, per) ==
    [amount |-> amount, action |-> action, per |-> per]

\* str(value): the string as it is, the digits of an integer
str(value) == IF value.kind = "int" THEN <<ToString(value.int)>> ELSE value.text

\* c in s
In(c, s) == \E k \in 1..Len(s) : s[k] = c

\* s.split(sep, maxsplit=1): the string itself when it has no sep, else what
\* is before and what is behind its first sep
split(s, sep) ==
    IF ~In(sep, s) THEN <<s>>
    ELSE LET k == CHOOSE j \in 1..Len(s) :
                    s[j] = sep /\ \A m \in 1..(j - 1) : s[m] # sep
         IN  <<SubSeq(s, 1, k - 1), SubSeq(s, k + 1, Len(s))>>

\* what a call gives: the triple, or the error it raises
Parsed(amount, action, per) ==
    [amount |-> amount, action |-> action, per |-> per, err |-> ""]
ParseRaises(e) == [amount |-> None, action |-> None, per |-> None, err |-> e]

\* mutant: an empty component is handed back
NotEmpty_Unchecked(r) == r

\* if (amount == "") or (action == "") or (per == ""): raise ValueError
NotEmpty(r) ==
    IF r.err = "" /\ (r.amount = <<>> \/ r.action = <<>> \/ r.per = <<>>)
    THEN ParseRaises("ValueError")
    ELSE r

\* mutant: the legacy syntax is read as action:amount
Legacy_ActionFirst(_value) ==
    LET parts == split(_value, ":")
    IN  Parsed(parts[2], parts[1], <<"jail">>)

\* amount, action = _value.split(":", maxsplit=1); per = "jail"
Legacy(_value) ==
    LET parts == split(_value, ":")
    IN  Parsed(parts[1], parts[2], <<"jail">>)

\* action, _rest = _value.split("=", maxsplit=1);
\* amount, per = _rest.split("/", maxsplit=1), which raises a ValueError when
\* _rest has no "/"
Rctl(_value) ==
    LET parts == split(_value, "=")
        rest == split(parts[2], "/")
    IN  IF Len(rest) # 2 THEN ParseRaises("ValueError")
        ELSE Parsed(rest[1], parts[1], rest[2])

_parse_resource_limit(value) ==
    LET _value == str(value)
    IN  IF ~In("=", _value) /\ ~In(":", _value)
        THEN NotEmpty(Parsed(_value, <<"deny">>, <<"jail">>))
        ELSE IF In("=", _value) THEN NotEmpty(Rctl(_value))
        ELSE IF In(":", _value) THEN NotEmpty(Legacy(_value))
        ELSE ParseRaises("ValueError")

\* limit_string: f"{self.action}={self.amount}/{self.per}"
limit_string(self) == self.action \o <<"=">> \o self.amount \o <<"/">> \o self.per

\* mutant: the full form is written whatever per is
Serialize_AlwaysFull(self) == limit_string(self)

\* __str__
Serialize(self) ==
    IF self.per = <<"jail">>
    THEN self.amount \o <<":">> \o self.action
    ELSE limit_string(self)

\* the names of the resource limits, and one that is none
KnownLimits == {"vmemoryuse"}
LimitNames == KnownLimits \cup {"bogus"}

\* the config a property is attached to: whether there is one, and its data
\* for the property
NoConfig == [attached |-> FALSE, present |-> FALSE, value |-> <<>>]
Config(present, value) ==
    [attached |-> TRUE, present |-> present, value |-> value]
Configs ==
    {NoConfig, Config(FALSE, <<>>)}
        \cup {Config(TRUE, v) : v \in {<<"128M">>, <<"deny", "=", "128M", "/", "deny">>,
                                        <<"128M", ":">>}}

\* a ResourceLimitProp
Prop(amount, action, per, config) ==
    [amount |-> amount, action |-> action, per |-> per, config |-> config]

Outcome(self, e) == [self |-> self, err |-> e]

\* mutant: the value is cleared before the input is looked at
set_ClearsFirst(self, data) ==
    IF data.kind = "none"
    THEN Outcome(Prop(None, None, None,
            IF self.config.attached /\ self.config.present
            THEN Config(FALSE, <<>>) ELSE self.config), "")
    ELSE IF data.kind \in {"str", "int"}
    THEN LET r == _parse_resource_limit(data)
         IN  IF r.err # ""
             THEN Outcome(Prop(None, None, None, self.config), r.err)
             ELSE Outcome(Prop(r.amount, r.action, r.per, self.config), "")
    ELSE IF data.kind = "value"
    THEN Outcome(Prop(data.value.amount, data.value.action, data.value.per,
                      self.config), "")
    ELSE Outcome(Prop(None, None, None, self.config), "TypeError")

\* ResourceLimitProp.set
set(self, data) ==
    IF data.kind = "none"
    THEN Outcome(Prop(None, None, None,
            IF self.config.attached /\ self.config.present
            THEN Config(FALSE, <<>>) ELSE self.config), "")
    ELSE IF data.kind \in {"str", "int"}
    THEN LET r == _parse_resource_limit(data)
         IN  IF r.err # "" THEN Outcome(self, r.err)
             ELSE Outcome(Prop(r.amount, r.action, r.per, self.config), "")
    ELSE IF data.kind = "value"
    THEN Outcome(Prop(data.value.amount, data.value.action, data.value.per,
                      self.config), "")
    ELSE Outcome(self, "TypeError")

\* __update_from_config
update_from_config(self) ==
    IF ~self.config.attached \/ ~self.config.present
    THEN set(self, Data("none", <<>>, 0, Value(None, None, None)))
    ELSE set(self, Data("str", self.config.value, 0, Value(None, None, None)))

\* ResourceLimitValue.__init__
ResourceLimitValue(self) == [self EXCEPT !.amount = None, !.action = None,
                                         !.per = None]

\* ResourceLimitProp.__init__: the value is read from the config, then the
\* constructor of the base class runs
ResourceLimitProp(property_name, config) ==
    LET self == Prop(None, None, None, config)
    IN  IF property_name \notin KnownLimits
        THEN Outcome(self, "ResourceLimitUnknown")
        ELSE LET r == update_from_config(self)
             IN  IF r.err # "" THEN r
                 ELSE Outcome(ResourceLimitValue(r.self), "")

\* what set is called with besides the string: None, integers, values,
\* something of another type
OtherData ==
    {Data("none", <<>>, 0, Value(None, None, None)),
     Data("int", <<>>, 128, Value(None, None, None)),
     Data("other", <<>>, 0, Value(None, None, None)),
     Data("value", <<>>, 0, Value(<<"128M">>, <<"deny">>, <<"jail">>)),
     Data("value", <<>>, 0, Value(None, None, None))}

\* a call on the resource limit: what it was given, the object before and
\* after it, what it raised, the string it gave
LimitCall(op, data, pre, post, err, text) ==
    [op |-> op, data |-> data, pre |-> pre, post |-> post, err |-> err,
     text |-> text]

StrData(text) == Data("str", text, 0, Value(None, None, None))

\* the properties set is called on: a new one without a config, a new one
\* whose config lacks the property, one that holds a value of its config
Props ==
    {Prop(None, None, None, NoConfig),
     Prop(None, None, None, Config(FALSE, <<>>)),
     Prop(<<"128M">>, <<"deny">>, <<"jail">>, Config(TRUE, <<"128M">>))}

LimitInit ==
    /\ limit = [self |-> Prop(None, None, None, NoConfig),
                call |-> LimitCall("none", StrData(<<>>),
                            Prop(None, None, None, NoConfig),
                            Prop(None, None, None, NoConfig), "", <<>>)]
    /\ stamps = <<>>
    /\ pc = "limit"
    /\ exit_code = -1
    /\ ioc_jails = <<>>
    /\ cli = <<>>
    /\ stream = <<>>
    /\ MigrateIdle
    /\ ReleaseIdle
    /\ ZfsIdle

LimitOnly ==
    UNCHANGED <<migrateVars, releaseVars, zfsVars, cliVars, stamps, stream>>

\* the call has returned or raised
LimitReturned(call, next) ==
    /\ limit' = [self |-> call.post, call |-> call]
    /\ pc' = IF call.err = "" THEN next ELSE "limit_raised"

\* ResourceLimitProp(property_name, config)
Construct ==
    /\ LimitOnly
    /\ pc = "limit"
    /\ \E property_name \in LimitNames,
          config \in Configs \cup {Config(TRUE, text) : text \in Texts} :
         LET r == ResourceLimitProp(property_name, config)
         IN  LimitReturned(LimitCall("init", StrData(<<property_name>>),
                        Prop(None, None, None, config), r.self, r.err, <<>>),
                     "limit_new")

\* prop.set(data)
Set ==
    /\ LimitOnly
    /\ pc = "limit"
    /\ \E self \in Props,
          data \in OtherData \cup {StrData(text) : text \in Texts} :
         LET r == set(self, data)
         IN  LimitReturned(LimitCall("set", data, self, r.self, r.err, <<>>),
                     "limit_set")

\* _parse_resource_limit(text)
Parse ==
    /\ LimitOnly
    /\ pc = "limit"
    /\ \E text \in Texts :
         LET r == _parse_resource_limit(StrData(text))
         IN  /\ limit' = [limit EXCEPT
                    !.call = LimitCall("parse", StrData(text), limit.self,
                                Prop(r.amount, r.action, r.per, NoConfig),
                                r.err, <<>>)]
             /\ pc' = "limit_parsed"

\* str(prop) of a property that holds a value
Str ==
    /\ LimitOnly
    /\ pc = "limit_set"
    /\ limit.self.amount # None
    /\ limit' = [limit EXCEPT
            !.call = LimitCall("str", limit.call.data, limit.self, limit.self,
                        "", Serialize(limit.self))]
    /\ pc' = "limit_str"

\* the string that str gave is parsed; the call keeps what the value was
\* set from
ParseStr ==
    /\ LimitOnly
    /\ pc = "limit_str"
    /\ LET r == _parse_resource_limit(StrData(limit.call.text))
       IN  limit' = [limit EXCEPT
                !.call = LimitCall("reparse", limit.call.data, limit.self,
                            Prop(r.amount, r.action, r.per, NoConfig),
                            r.err, limit.call.text)]
    /\ pc' = "limit_parsed"

LimitNext ==
    \/ Construct
    \/ Set
    \/ Parse
    \/ Str
    \/ ParseStr

LimitSpec == LimitInit /\ [][LimitNext]_vars

----------------------------------------------------------------------------
\* Snapshot names with a timestamp: append_snapshot_datetime (ZFS.py) and
\* ReleaseGenerator._append_datetime (Release.py)

\* the instants datetime.datetime.utcnow() gives
Instants ==
    [year : {2018}, month : {9}, day : {30}, hour : {1, 13},
     minute : {0, 59}, second : {0, 59}, microsecond : {0, 999999}]

\* the texts the timestamp is appended to
Labels == {<<"pre-update">>, <<"ioc-export">>}

\* n in w decimal digits, zero-padded
Digits(n, w) == [k \in 1..w |-> ToString((n \div (10 ^ (w - k))) % 10)]

\* %I of strftime: the hour of the 12-hour clock, 01 to 12
Hour12(now) == ((now.hour + 11) % 12) + 1

\* mutant: the minute stands in the place of %I
strftime_WithMinute(now) ==
    Digits(now.year, 4) \o Digits(now.month, 2) \o Digits(now.day, 2)
        \o Digits(now.hour, 2) \o Digits(now.minute, 2)
        \o Digits(now.second, 2) \o <<".">> \o Digits(now.microsecond, 6)

\* now.strftime("%Y%m%d%H%I%S.%f")
strftime(now) ==
    Digits(now.year, 4) \o Digits(now.month, 2) \o Digits(now.day, 2)
        \o Digits(now.hour, 2) \o Digits(Hour12(now), 2)
        \o Digits(now.second, 2) \o <<".">> \o Digits(now.microsecond, 6)

\* text += now.strftime(...); return text
append_datetime(text, now) == text \o strftime(now)

StampInit ==
    /\ stamps = <<>>
    /\ limit = <<>>
    /\ pc = "stamp"
    /\ stream = <<>>
    /\ MigrateIdle
    /\ ReleaseIdle
    /\ ZfsIdle
    /\ CliIdle

StampOnly ==
    UNCHANGED <<migrateVars, releaseVars, zfsVars, cliVars, limit, stream, pc>>

\* a name was built by function fn from text at the instant now
Stamped(fn, text, now) ==
    /\ Len(stamps) < MaxCalls
    /\ stamps' = Append(stamps, [fn |-> fn, text |-> text, now |-> now,
                                 name |-> append_datetime(text, now)])

\* iocage.lib.ZFS.append_snapshot_datetime(text)
AppendSnapshotDatetime ==
    /\ StampOnly
    /\ pc = "stamp"
    /\ \E text \in Labels, now \in Instants :
         Stamped("append_snapshot_datetime", text, now)

\* ReleaseGenerator._append_datetime(text)
AppendDatetime ==
    /\ StampOnly
    /\ pc = "stamp"
    /\ \E text \in Labels, now \in Instants :
         Stamped("_append_datetime", text, now)

StampNext ==
    \/ AppendSnapshotDatetime
    \/ AppendDatetime

StampSpec == StampInit /\ [][StampNext]_vars

----------------------------------------------------------------------------
TypeOK ==
    /\ jails \in [JailIds -> JailConfigs]
    /\ running \in [JailIds -> BOOLEAN]
    /\ dataset \in [JailIds -> {"complete", "partial", "absent"}]
    /\ \A n \in TargetNames :
         /\ target[n].state \in {"absent", "partial", "complete"}
         /\ target[n].owner \in 0..NumJails
    /\ renamed \in [JailIds -> BOOLEAN]
    /\ \A i \in JailIds :
         event[i].state \in {"pending", "running", "done", "skipped", "failed"}
    /\ pc \in {"loop", "begun", "cloning", "cloned", "destroying", "destroyed",
               "renaming", "renamed", "finished", "raised", "workflow",
               "workflow_failed"}
            \cup {"fetch", "f266", "f267", "f274", "f275", "f279", "f280",
                  "f285", "f288", "f289", "f293", "f297", "f301", "u356",
                  "u429", "u445", "p452", "p_start", "p_started", "p_exec",
                  "p_execd", "p_stop", "p_stopped", "p487", "p495", "c322",
                  "c324", "c326", "zfs"}
    /\ idx \in 1..(NumJails + 1)

----------------------------------------------------------------------------
\* What the claims speak of

Terminal == {"done", "skipped", "failed"}

\* the transitions of jail i's JailMigrationEvent the generator has yielded
MigrationEvents(i) ==
    SelectSeq(stream,
        LAMBDA ev : ev.identifier = i /\ ev.type = "JailMigration")

TerminalEvents(i) ==
    SelectSeq(MigrationEvents(i), LAMBDA ev : ev.state \in Terminal)

\* an operation of the given type was started for jail i
Started(i, type) ==
    \E k \in 1..Len(stream) :
        stream[k].identifier = i /\ stream[k].type = type

HasCall(i, op) == \E k \in 1..Len(calls[i]) : calls[i][k].op = op

LastCall(i) == calls[i][Len(calls[i])]

\* the last operation invoked for jail i raised
FailedStep(i) == calls[i] # <<>> /\ ~LastCall(i).ok

RollbackFailed(i) ==
    \E k \in 1..Len(event[i].reverted) : ~event[i].reverted[k].ok

\* nothing was done to or for jail i
Untouched(i) ==
    /\ calls[i] = <<>>
    /\ dataset[i] = "complete"
    /\ ~renamed[i]
    /\ event[i].rollback_steps = <<>>
    /\ event[i].reverted = <<>>
    /\ \A n \in TargetNames : target[n].owner # i
    /\ \A k \in 1..Len(stream) :
            stream[k].identifier = i => stream[k].type = "JailMigration"

----------------------------------------------------------------------------
C2_BatchIsolation ==
    /\ pc # "raised"
    /\ \A i \in JailIds :
        FailedStep(i) =>
            /\ event[i].state = "failed"
            /\ event[i].error \in Raised
            /\ idx > i

\* C3, as claimed: an event that emitted begin emits exactly one terminal
\* transition, the last of its transitions, by the time the generator has
\* ended, and never more than one.
C3_EventLifecycle ==
    \A i \in JailIds :
        /\ Len(TerminalEvents(i)) <= 1
        /\ (pc \in {"finished", "raised"} /\ MigrationEvents(i) # <<>>) =>
            /\ Len(TerminalEvents(i)) = 1
            /\ MigrationEvents(i)[Len(MigrationEvents(i))].state \in Terminal

\* C4: the destroy of the original jail is started, and its dataset touched,
\* only after clone_from_jail, save and promote of the new jail all succeeded.
C4_DestroyOnlyAfterPromote ==
    \A i \in JailIds :
        (Started(i, "JailDestroy") \/ HasCall(i, "destroy")
            \/ dataset[i] # "complete")
        => /\ Len(calls[i]) >= 3
           /\ calls[i][1] = Called("clone_from_jail", TRUE)
           /\ calls[i][2] = Called("save", TRUE)
           /\ calls[i][3] = Called("promote", TRUE)

C4_Witness ==
    \E i \in JailIds : dataset[i] = "absent" /\ HasCall(i, "destroy")

\* C5: a jail that is not legacy is left untouched (no clone, save, promote,
\* destroy, rename, no rollback step), and once it was processed its event
\* has emitted begin and then the one terminal transition skipped.
C5_MigrationSkip ==
    \A i \in JailIds :
        jails[i].legacy = FALSE =>
            /\ Untouched(i)
            /\ idx > i =>
                MigrationEvents(i) =
                    << Emit(i, "JailMigration", "running", "none"),
                       Emit(i, "JailMigration", "skipped", "none") >>

C5_Witness ==
    \E i \in JailIds :
        /\ jails[i].legacy = FALSE
        /\ event[i].state = "skipped"
        /\ \E j \in JailIds : j # i /\ calls[j] # <<>>

\* C6: a legacy jail that is running is left untouched and stays running, and
\* once it was processed its event has emitted begin and then failed with
\* JailAlreadyRunning.
C6_RunningJailFails ==
    \A i \in JailIds :
        (jails[i].legacy /\ running[i]) =>
            /\ Untouched(i)
            /\ idx > i =>
                /\ event[i].state = "failed"
                /\ event[i].error = "JailAlreadyRunning"
                /\ MigrationEvents(i) =
                    << Emit(i, "JailMigration", "running", "none"),
                       Emit(i, "JailMigration", "failed",
                            "JailAlreadyRunning") >>

C6_Witness ==
    \E i \in JailIds :
        /\ jails[i].legacy
        /\ running[i]
        /\ event[i].state = "failed"
        /\ event[i].error = "JailAlreadyRunning"

\* the step of the generator that finds the target name of jail i taken
FindsTargetTaken(i) ==
    /\ pc = "begun"
    /\ idx = i
    /\ jails[i].legacy
    /\ ~running[i]
    /\ target[temporary_name(i)].state # "absent"

\* C7: when the target name is taken, the event fails with JailAlreadyExists
\* with no rollback step registered or run, and that step changes neither the
\* jail under the target name nor the original jail; a jail whose event
\* failed so has had no operation invoked for it.
C7_TargetExists ==
    /\ [](\A i \in JailIds :
            event[i].error = "JailAlreadyExists" =>
                /\ event[i].state = "failed"
                /\ Untouched(i)
                /\ target[temporary_name(i)].state # "absent")
    /\ [][\A i \in JailIds :
            FindsTargetTaken(i) =>
                /\ event'[i].state = "failed"
                /\ event'[i].error = "JailAlreadyExists"
                /\ target' = target
                /\ dataset' = dataset
                /\ running' = running]_vars

C7_Witness ==
    \E i \in JailIds :
        /\ event[i].error = "JailAlreadyExists"
        /\ target[temporary_name(i)] = ForeignJail
        /\ dataset[i] = "complete"

\* C8: the new jail is renamed exactly when the tag is no valid name; the
\* rename starts after the original jail was destroyed and before the event
\* has emitted a terminal transition, and it is the last operation of a
\* migration that is done.
C8_RenameLast ==
    \A i \in JailIds :
        /\ validate_name(jails[i].tag) =>
            ~Started(i, "JailRename") /\ ~HasCall(i, "rename") /\ ~renamed[i]
        /\ \A k \in 1..Len(stream) :
            (stream[k].identifier = i /\ stream[k].type = "JailRename") =>
                /\ \E j \in 1..(k - 1) :
                        stream[j] = Emit(i, "JailDestroy", "done", "none")
                /\ \A j \in 1..(k - 1) :
                        ~( /\ stream[j].identifier = i
                           /\ stream[j].type = "JailMigration"
                           /\ stream[j].state \in Terminal )
        /\ Started(i, "JailRename") => dataset[i] = "absent"
        /\ event[i].state = "done" =>
            /\ calls[i] # <<>>
            /\ LastCall(i) =
                IF validate_name(jails[i].tag) THEN Called("destroy", TRUE)
                ELSE Called("rename", TRUE)
            /\ renamed[i] = ~validate_name(jails[i].tag)

C8_Witness ==
    \E i, j \in JailIds :
        /\ event[i].state = "done" /\ renamed[i]
        /\ event[j].state = "done" /\ ~renamed[j]

----------------------------------------------------------------------------
\* the failed event of the given type was yielded for identifier i
YieldedFailed(i, type) ==
    \E k \in 1..Len(stream) :
        /\ stream[k].identifier = i
        /\ stream[k].type = type
        /\ stream[k].state = "failed"

StateBefore(ev) ==
    IF ev.type \in DOMAIN revent THEN revent[ev.type].state
    ELSE IF ev.type = "JailMigration" THEN event[ev.identifier].state
    ELSE "running"

\* C12, as claimed: every end, skip or fail in migrate and in Release.fetch
\* (with fetch_updates and update) is issued on an event that is running.
C12_TerminalOnlyWhenRunning ==
    [][\A k \in (Len(stream) + 1)..Len(stream') :
            stream'[k].state \in Terminal =>
                StateBefore(stream'[k]) = "running"]_vars

----------------------------------------------------------------------------
\* the calls of a method made so far
CallsOf(method) == {k \in DOMAIN zcall : zcall[k].method = method}

\* operation op succeeded on dataset d (for a snapshot operation: on snapshot
\* sn) before position k of the log
DoneBefore(log, k, op, d, sn) ==
    \E j \in 1..(k - 1) :
        /\ log[j].op = op
        /\ log[j].dataset = d
        /\ log[j].snapshot = sn
        /\ log[j].ok

\* C13: delete_dataset_recursive deletes depth-first.  Whenever it deletes a
\* dataset, every descendant of it was deleted before, it was unmounted
\* before if it was mounted, and, when delete_snapshots is set for it, each
\* of its snapshots was deleted before; after a call without an error no
\* dataset of the subtree exists.
C13_DeleteDepthFirst ==
    \A c \in CallsOf("delete_dataset_recursive") :
        LET call == zcall[c]
            log == call.log
        IN  /\ \A k \in DOMAIN log :
                log[k].op = "delete" =>
                    /\ \A e \in children_recursive(call.pre, log[k].dataset) :
                            DoneBefore(log, k, "delete", e, NoSnapshot)
                    /\ log[k].dataset \in call.pre.mounted =>
                            DoneBefore(log, k, "umount", log[k].dataset,
                                       NoSnapshot)
                    /\ log[k].by.delete_snapshots =>
                            \A sn \in snapshots(call.pre, log[k].dataset) :
                                DoneBefore(log, k, "delete_snapshot",
                                           sn.dataset, sn)
            /\ call.err = "" =>
                    Subtree(call.pre, call.dataset) \cap call.post.datasets = {}

\* a mounted subtree of three datasets, some with snapshots, was deleted
C13_Witness ==
    \E c \in CallsOf("delete_dataset_recursive") :
        /\ zcall[c].err = ""
        /\ Cardinality(Subtree(zcall[c].pre, zcall[c].dataset)) = 3
        /\ Subtree(zcall[c].pre, zcall[c].dataset) \subseteq zcall[c].pre.mounted
        /\ zcall[c].pre.snapshots # {}
        /\ Subtree(zcall[c].pre, zcall[c].dataset) \cap zcall[c].post.datasets = {}
        /\ \E k \in DOMAIN zcall[c].log : zcall[c].log[k].op = "delete_snapshot"

\* C14: an invocation of delete_dataset_recursive looks up and deletes the
\* origin snapshot of its dataset only when its delete_origin_snapshot is set
\* and the origin of the dataset is not empty, and only after it deleted the
\* dataset; with the flag set and an origin, the lookup follows the deletion
\* of the dataset.
C14_OriginSnapshotAfterDataset ==
    \A c \in CallsOf("delete_dataset_recursive") :
        LET call == zcall[c]
            log == call.log
        IN  \A k \in DOMAIN log :
                /\ log[k].line \in {126, 127} =>
                    /\ log[k].by.delete_origin_snapshot
                    /\ Origin(call.pre, log[k].by.dataset) # NoSnapshot
                    /\ log[k].snapshot = Origin(call.pre, log[k].by.dataset)
                    /\ DoneBefore(log, k, "delete", log[k].by.dataset,
                                  NoSnapshot)
                /\ ( /\ log[k].op = "delete"
                     /\ log[k].ok
                     /\ log[k].by.delete_origin_snapshot
                     /\ Origin(call.pre, log[k].dataset) # NoSnapshot ) =>
                    /\ k < Len(log)
                    /\ log[k + 1].op = "get_snapshot"
                    /\ log[k + 1].snapshot = Origin(call.pre, log[k].dataset)

\* a clone was deleted, and its origin snapshot after it
C14_Witness ==
    \E c \in CallsOf("delete_dataset_recursive") :
        /\ zcall[c].err = ""
        /\ Origin(zcall[c].pre, zcall[c].dataset) # NoSnapshot
        /\ Origin(zcall[c].pre, zcall[c].dataset) \notin zcall[c].post.snapshots
        /\ \E k \in DOMAIN zcall[c].log :
                /\ zcall[c].log[k].line = 127
                /\ zcall[c].log[k].ok
                /\ zcall[c].log[k].by.dataset = zcall[c].dataset

\* C15: clone_dataset on an existing target fails with DatasetExists without
\* a single backend operation and with the store unchanged when
\* delete_existing is false; when it is true, the call starts by unmounting
\* the target (if mounted) and deleting it, and nothing is snapshotted,
\* cloned or deleted under the source before the target was deleted.
C15_ExistingTarget ==
    \A c \in CallsOf("clone_dataset") :
        LET call == zcall[c]
            log == call.log
            first == IF call.target \in call.pre.mounted THEN 2 ELSE 1
        IN  call.target \in call.pre.datasets =>
                IF ~call.flags[1]
                THEN /\ call.err = "DatasetExists"
                     /\ log = <<>>
                     /\ call.post = call.pre
                ELSE /\ call.err # "DatasetExists"
                     /\ Len(log) >= first
                     /\ first = 2 =>
                            /\ log[1].op = "umount"
                            /\ log[1].dataset = call.target
                     /\ log[first].op = "delete"
                     /\ log[first].dataset = call.target
                     /\ \A k \in DOMAIN log :
                            k > first =>
                                /\ log[first].ok
                                /\ call.target \notin call.pre.mounted
                                    \/ log[1].ok

\* clone_dataset failed with DatasetExists on an existing target, and then
\* replaced that target when called again with delete_existing
C15_Witness ==
    \E c, d \in CallsOf("clone_dataset") :
        /\ c < d
        /\ zcall[c].target = zcall[d].target
        /\ zcall[c].target \in zcall[c].pre.datasets
        /\ ~zcall[c].flags[1]
        /\ zcall[c].err = "DatasetExists"
        /\ zcall[d].flags[1]
        /\ zcall[d].target \in zcall[d].pre.mounted
        /\ zcall[d].err = ""
        /\ Origin(zcall[d].post, zcall[d].target) # NoSnapshot

\* the names of the descendants of dataset d, relative to d
RelativeDescendants(st, d) ==
    {SubSeq(e, Len(d) + 1, Len(e)) : e \in children_recursive(st, d)}

\* the call after call c repeats it: clone_dataset of the same source to the
\* same target with the same snapshot name
Repeats(c) ==
    /\ c + 1 \in CallsOf("clone_dataset")
    /\ zcall[c + 1].dataset = zcall[c].dataset
    /\ zcall[c + 1].target = zcall[c].target
    /\ zcall[c + 1].snapshot_name = zcall[c].snapshot_name

\* the call succeeded and left the descendants of the source under the target
ClonedExactly(call) ==
    /\ call.err = ""
    /\ call.target \in call.post.datasets
    /\ RelativeDescendants(call.post, call.target) =
            RelativeDescendants(call.post, call.dataset)

\* C16, as claimed: when clone_dataset with delete_existing has cloned a
\* source to a target, the same call made again succeeds too and leaves the
\* target with exactly the descendants of the source.
C16_CloneIdempotence ==
    \A c \in CallsOf("clone_dataset") :
        ( /\ Repeats(c)
          /\ zcall[c].flags[1]
          /\ zcall[c + 1].flags[1]
          /\ ClonedExactly(zcall[c]) )
        => ClonedExactly(zcall[c + 1])

\* the same for a source without child datasets
C16_CloneIdempotenceOfLeaf ==
    \A c \in CallsOf("clone_dataset") :
        ( /\ Repeats(c)
          /\ zcall[c].flags[1]
          /\ zcall[c + 1].flags[1]
          /\ children_recursive(zcall[c].pre, zcall[c].dataset) = {}
          /\ ClonedExactly(zcall[c]) )
        => ClonedExactly(zcall[c + 1])

\* the repeated call failed when deleting the target of the first call
C16_FailsOnTargetWithChildren ==
    \E c \in CallsOf("clone_dataset") :
        /\ Repeats(c)
        /\ zcall[c].flags[1]
        /\ zcall[c + 1].flags[1]
        /\ ClonedExactly(zcall[c])
        /\ Cardinality(children_recursive(zcall[c].pre, zcall[c].dataset)) = 1
        /\ zcall[c + 1].err = "ZFSException"
        /\ zcall[c + 1].log[Len(zcall[c + 1].log)].line = 154

\* C17, as claimed: when clone_dataset without delete_existing has cloned a
\* source under a snapshot name, a second call with the same snapshot name
\* (to a free target) succeeds too, and every dataset of the source subtree
\* has the snapshot of that name afterwards.
C17_SnapshotNameCollision ==
    \A c \in CallsOf("clone_dataset") :
        ( /\ c + 1 \in CallsOf("clone_dataset")
          /\ zcall[c + 1].dataset = zcall[c].dataset
          /\ zcall[c + 1].snapshot_name = zcall[c].snapshot_name
          /\ ~zcall[c].flags[1]
          /\ ~zcall[c + 1].flags[1]
          /\ zcall[c].err = ""
          /\ zcall[c + 1].target \notin zcall[c + 1].pre.datasets )
        => /\ zcall[c + 1].err = ""
           /\ \A d \in Subtree(zcall[c + 1].post, zcall[c + 1].dataset) :
                Snapshot(d, zcall[c + 1].snapshot_name)
                    \in zcall[c + 1].post.snapshots

\* the second call failed when deleting the snapshot the first clone
\* depends on
C17_FailsOnDependentClone ==
    \E c \in CallsOf("clone_dataset") :
        /\ c + 1 \in CallsOf("clone_dataset")
        /\ zcall[c + 1].snapshot_name = zcall[c].snapshot_name
        /\ ~zcall[c].flags[1]
        /\ ~zcall[c + 1].flags[1]
        /\ zcall[c].err = ""
        /\ children_recursive(zcall[c].pre, zcall[c].dataset) = {}
        /\ zcall[c + 1].err = "ZFSException"
        /\ zcall[c + 1].log[Len(zcall[c + 1].log)].line = 169
        /\ zcall[c + 1].log[Len(zcall[c + 1].log)].snapshot =
                Origin(zcall[c].post, zcall[c].target)

\* the datasets of the source subtree that have a snapshot of the name
HaveSnapshot(call) ==
    {d \in Subtree(call.pre, call.dataset) :
        Snapshot(d, call.snapshot_name) \in call.pre.snapshots}

\* C18, as claimed: when a snapshot of the given name exists on some dataset
\* of the source subtree (and the target is free, and no clone depends on
\* such a snapshot), clone_dataset deletes the snapshots of that name and
\* takes the new recursive snapshot.
C18_SnapshotDeduplication ==
    \A c \in CallsOf("clone_dataset") :
        LET call == zcall[c]
        IN  ( /\ HaveSnapshot(call) # {}
              /\ call.target \notin call.pre.datasets
              /\ \A o \in call.pre.origin :
                    o.snapshot.name # call.snapshot_name )
            => /\ \A d \in HaveSnapshot(call) :
                    \E k \in DOMAIN call.log :
                        /\ call.log[k].op = "delete_snapshot"
                        /\ call.log[k].snapshot = Snapshot(d, call.snapshot_name)
                        /\ call.log[k].ok
               /\ \E k \in DOMAIN call.log :
                    /\ call.log[k].op = "snapshot"
                    /\ call.log[k].ok

\* the same when every dataset of the source subtree has the snapshot
C18_SnapshotDeduplicationOfAll ==
    \A c \in CallsOf("clone_dataset") :
        LET call == zcall[c]
        IN  ( /\ HaveSnapshot(call) = Subtree(call.pre, call.dataset)
              /\ call.target \notin call.pre.datasets
              /\ \A o \in call.pre.origin :
                    o.snapshot.name # call.snapshot_name )
            => /\ \A d \in HaveSnapshot(call) :
                    \E k \in DOMAIN call.log :
                        /\ call.log[k].op = "delete_snapshot"
                        /\ call.log[k].snapshot = Snapshot(d, call.snapshot_name)
                        /\ call.log[k].ok
               /\ \E k \in DOMAIN call.log :
                    /\ call.log[k].op = "snapshot"
                    /\ call.log[k].ok

\* the lookup of the snapshot of a dataset that has none failed
C18_FailsOnMissingSnapshot ==
    \E c \in CallsOf("clone_dataset") :
        /\ HaveSnapshot(zcall[c]) # {}
        /\ zcall[c].err = "ZFSException"
        /\ zcall[c].log[Len(zcall[c].log)].line = 168
        /\ zcall[c].log[Len(zcall[c].log)].dataset \notin HaveSnapshot(zcall[c])

\* dataset t is a mounted clone of the snapshot of dataset d
MountedCloneOf(call, t, d) ==
    /\ t \in call.post.datasets
    /\ t \in call.post.mounted
    /\ Origin(call.post, t) = Snapshot(d, call.snapshot_name)

\* C19: after a clone_dataset that raised nothing, the target is a mounted
\* clone of the snapshot of the source, every descendant of the source has a
\* mounted clone of its snapshot at the same relative name under the target,
\* and the target has no other descendants.
C19_ClonePostcondition ==
    \A c \in CallsOf("clone_dataset") :
        LET call == zcall[c]
        IN  call.err = "" =>
                /\ MountedCloneOf(call, call.target, call.dataset)
                /\ \A d \in children_recursive(call.post, call.dataset) :
                        MountedCloneOf(call,
                            call.target
                                \o SubSeq(d, Len(call.dataset) + 1, Len(d)),
                            d)
                /\ RelativeDescendants(call.post, call.target) =
                        RelativeDescendants(call.post, call.dataset)

\* a source with a child and a grandchild was cloned
C19_Witness ==
    \E c \in CallsOf("clone_dataset") :
        /\ zcall[c].err = ""
        /\ zcall[c].dataset \o <<"a", "b">> \in zcall[c].pre.datasets
        /\ MountedCloneOf(zcall[c], zcall[c].target \o <<"a", "b">>,
                          zcall[c].dataset \o <<"a", "b">>)

\* the parent of the target of a clone operation
ParentTarget(o) == parent_name(o.dataset)

\* C20, as claimed: in every clone_dataset, whatever the order in which the
\* descendants are enumerated, a descendant is cloned only when the clone of
\* its parent has been made, and no dataset is created under the target as a
\* plain dataset.
C20_ParentClonedFirst ==
    \A c \in CallsOf("clone_dataset") :
        LET call == zcall[c]
            log == call.log
        IN  \A k \in DOMAIN log :
                /\ (log[k].op = "clone" /\ log[k].line = 190) =>
                        DoneBefore(log, k, "clone", ParentTarget(log[k]),
                            Snapshot(parent_name(log[k].snapshot.dataset),
                                     call.snapshot_name))
                /\ log[k].op = "create" =>
                        ~IsPrefix(call.target, log[k].dataset)

\* the same for the calls in which every descendant is enumerated after its
\* parent
C20_ParentClonedFirstIfEnumeratedFirst ==
    \A c \in CallsOf("clone_dataset") :
        LET call == zcall[c]
            log == call.log
            enumerated == SelectSeq(log, LAMBDA o : o.line = 186)
        IN  (\A i, j \in DOMAIN enumerated :
                IsPrefix(enumerated[i].dataset, enumerated[j].dataset) => i <= j)
            => \A k \in DOMAIN log :
                /\ (log[k].op = "clone" /\ log[k].line = 190) =>
                        DoneBefore(log, k, "clone", ParentTarget(log[k]),
                            Snapshot(parent_name(log[k].snapshot.dataset),
                                     call.snapshot_name))
                /\ log[k].op = "create" =>
                        ~IsPrefix(call.target, log[k].dataset)

\* a grandchild was cloned into a parent that get_or_create_dataset made
C20_ChildClonedIntoPlainParent ==
    \E c \in CallsOf("clone_dataset") :
        \E k \in DOMAIN zcall[c].log :
            /\ k > 2
            /\ zcall[c].log[k].op = "clone"
            /\ zcall[c].log[k].ok
            /\ zcall[c].log[k].dataset = zcall[c].target \o <<"a", "b">>
            /\ zcall[c].log[k - 2].op = "create"
            /\ zcall[c].log[k - 2].dataset = zcall[c].target \o <<"a">>
            /\ zcall[c].err = "ZFSException"

----------------------------------------------------------------------------
\* C21: the backend operation that fails is the last one clone_dataset makes
\* (no further descendant is cloned), and the exception reaches the caller
\* with nothing cleaned up: the recursive snapshot taken by the call and the
\* clones made before the failure are still there.
C21_CloneAbortsWithoutCleanup ==
    \A c \in CallsOf("clone_dataset") :
        LET call == zcall[c]
            log == call.log
        IN  /\ \A k \in DOMAIN log :
                ~log[k].ok => (k = Len(log) /\ call.err = "ZFSException")
            /\ call.err = "ZFSException" => ~log[Len(log)].ok
            /\ \A k \in DOMAIN log :
                /\ (log[k].op = "snapshot" /\ log[k].ok) =>
                        \A d \in Subtree(call.pre, call.dataset) :
                            Snapshot(d, call.snapshot_name)
                                \in call.post.snapshots
                /\ (log[k].op = "clone" /\ log[k].ok) =>
                        /\ log[k].dataset \in call.post.datasets
                        /\ Origin(call.post, log[k].dataset) = log[k].snapshot
                /\ log[k].line >= 172 =>
                        log[k].op \notin {"delete", "delete_snapshot", "umount"}

\* the clone of a descendant failed after the target and another descendant
\* had been cloned; snapshot and clones are still there
C21_Witness ==
    \E c \in CallsOf("clone_dataset") :
        LET call == zcall[c]
            log == call.log
        IN  /\ call.err = "ZFSException"
            /\ log[Len(log)].op = "clone"
            /\ log[Len(log)].line = 190
            /\ Snapshot(call.dataset, call.snapshot_name) \in call.post.snapshots
            /\ Origin(call.post, call.target) # NoSnapshot
            /\ \E d \in children_recursive(call.post, call.target) :
                    Origin(call.post, d) # NoSnapshot

\* C22, as claimed: promote_dataset promotes no dataset twice and none
\* before one of its descendants, and a call that raised nothing has promoted
\* every dataset of the subtree, the one it was called on last.
C22_PromoteReverseDepthOrder ==
    \A c \in CallsOf("promote_dataset") :
        LET call == zcall[c]
            log == call.log
        IN  /\ \A j, k \in DOMAIN log :
                j < k =>
                    /\ log[j].dataset # log[k].dataset
                    /\ ~IsPrefix(log[j].dataset, log[k].dataset)
            /\ call.err = "" =>
                /\ {log[k].dataset : k \in DOMAIN log} =
                        Subtree(call.pre, call.dataset)
                /\ log[Len(log)].dataset = call.dataset

\* the part of it that does not depend on the order of the enumeration
C22_PromoteEachOnceRootLast ==
    \A c \in CallsOf("promote_dataset") :
        LET call == zcall[c]
            log == call.log
        IN  /\ \A j, k \in DOMAIN log :
                j < k => log[j].dataset # log[k].dataset
            /\ call.err = "" =>
                /\ {log[k].dataset : k \in DOMAIN log} =
                        Subtree(call.pre, call.dataset)
                /\ log[Len(log)].dataset = call.dataset

\* a dataset was promoted before its child
C22_AncestorPromotedFirst ==
    \E c \in CallsOf("promote_dataset") :
        \E j, k \in DOMAIN zcall[c].log :
            /\ j < k
            /\ zcall[c].log[j].ok
            /\ zcall[c].log[k].ok
            /\ parent_name(zcall[c].log[k].dataset) = zcall[c].log[j].dataset

\* the subtree of the call is a dataset with a child and a grandchild, each
\* the clone of a snapshot
ThreeLevelClones(call) ==
    /\ Subtree(call.pre, call.dataset) =
            {call.dataset, call.dataset \o <<"a">>, call.dataset \o <<"a", "b">>}
    /\ \A d \in Subtree(call.pre, call.dataset) :
            Origin(call.pre, d) # NoSnapshot

\* C23: promote_dataset on a dataset A with child B and grandchild C, each
\* the clone of a snapshot, raises nothing and leaves none of the three with
\* an origin, in whatever order B and C are enumerated.
C23_PromotePostcondition ==
    \A c \in CallsOf("promote_dataset") :
        ThreeLevelClones(zcall[c]) =>
            /\ zcall[c].err = ""
            /\ \A d \in Subtree(zcall[c].pre, zcall[c].dataset) :
                    Origin(zcall[c].post, d) = NoSnapshot

\* three levels were promoted with the child before the grandchild
C23_Witness ==
    \E c \in CallsOf("promote_dataset") :
        /\ ThreeLevelClones(zcall[c])
        /\ zcall[c].err = ""
        /\ zcall[c].log[1].dataset = zcall[c].dataset \o <<"a">>
        /\ zcall[c].log[2].dataset = zcall[c].dataset \o <<"a", "b">>
        /\ \A d \in Subtree(zcall[c].pre, zcall[c].dataset) :
                Origin(zcall[c].post, d) = NoSnapshot

\* the prefixes of a dataset name, the name included
Ancestors(d) == {SubSeq(d, 1, k) : k \in 1..Len(d)}

\* C24: get_or_create_dataset on an existing dataset makes no backend
\* operation and changes nothing; on a missing one it creates the dataset
\* and its missing ancestors, and nothing else, and mounts the dataset; a
\* second call in a row with the same name changes nothing.
C24_GetOrCreateIdempotent ==
    \A c \in CallsOf("get_or_create_dataset") :
        LET call == zcall[c]
        IN  /\ call.err = ""
            /\ call.dataset \in call.pre.datasets =>
                    /\ call.log = <<>>
                    /\ call.post = call.pre
            /\ call.dataset \notin call.pre.datasets =>
                    /\ call.post.datasets =
                            call.pre.datasets \cup Ancestors(call.dataset)
                    /\ call.post.mounted =
                            call.pre.mounted \cup {call.dataset}
                    /\ call.post.snapshots = call.pre.snapshots
                    /\ call.post.origin = call.pre.origin
            /\ ( /\ c + 1 \in CallsOf("get_or_create_dataset")
                 /\ zcall[c + 1].dataset = call.dataset ) =>
                    /\ zcall[c + 1].post = call.post
                    /\ zcall[c + 1].log = <<>>

\* a dataset was created with its missing parent and mounted, and the same
\* call made again did nothing
C24_Witness ==
    \E c \in CallsOf("get_or_create_dataset") :
        /\ parent_name(zcall[c].dataset) \notin zcall[c].pre.datasets
        /\ parent_name(zcall[c].dataset) \in zcall[c].post.datasets
        /\ zcall[c].dataset \in zcall[c].post.mounted
        /\ c + 1 \in CallsOf("get_or_create_dataset")
        /\ zcall[c + 1].dataset = zcall[c].dataset
        /\ zcall[c + 1].post = zcall[c].post

----------------------------------------------------------------------------
\* C25, as claimed: the helper jail exists and the release is changed only
\* after the pre-update snapshot was taken, and once the failed event of
\* RunReleaseUpdate is yielded the helper jail is stopped and the dataset
\* reverted to the snapshot; the exception then leaves update.
C25_UpdateFailureHandling ==
    /\ pc \in {"p_start", "p_started", "p_exec", "p_execd", "p_stop",
               "p_stopped", "p487", "p495"} => release.snapshot
    /\ YieldedFailed(0, "RunReleaseUpdate") =>
            /\ release.jail # "running"
            /\ release.reverted
            /\ release.content = "release"
            /\ pc \in {"p495", "raised"}

\* the part of it that holds: snapshot first, dataset reverted before the
\* failed event, exception re-raised
C25_SnapshotFirstRevertedOnFailure ==
    /\ pc \in {"p_start", "p_started", "p_exec", "p_execd", "p_stop",
               "p_stopped", "p487", "p495"} => release.snapshot
    /\ YieldedFailed(0, "RunReleaseUpdate") =>
            /\ release.reverted
            /\ release.content = "release"
            /\ pc \in {"p495", "raised"}

\* the failed event was yielded while the helper jail is running
C25_FailedWithJailRunning ==
    /\ pc = "p495"
    /\ YieldedFailed(0, "RunReleaseUpdate")
    /\ release.jail = "running"
    /\ release.reverted

----------------------------------------------------------------------------
\* something was done to or for jail i
Touched(i) ==
    \/ calls[i] # <<>>
    \/ dataset[i] # "complete"
    \/ renamed[i]
    \/ event[i].rollback_steps # <<>>
    \/ \E n \in TargetNames : target[n].owner = i

\* C30: the events of the migrate batch come jail by jail in the order of
\* the batch, nothing is done to a jail before its begin event was yielded
\* and nothing to a jail the loop has not reached, and every step that
\* changes a jail is part of a pull: it ends by yielding an event or by
\* ending the generator.
C30_SequentialPullDriven ==
    /\ [](/\ \A k, l \in 1..Len(stream) :
                k < l => stream[k].identifier <= stream[l].identifier
          /\ \A i \in JailIds :
                /\ Touched(i) =>
                        \E k \in 1..Len(stream) :
                            stream[k] = Emit(i, "JailMigration", "running", "none")
                /\ i > idx =>
                        /\ Untouched(i)
                        /\ \A k \in 1..Len(stream) : stream[k].identifier # i)
    /\ [][<<running, dataset, target, renamed, calls>>
                # <<running', dataset', target', renamed', calls'>>
            => (Len(stream') > Len(stream) \/ pc' \in {"finished", "raised"})]_vars

\* the first jail is done with, the second one being cloned
C30_Witness ==
    /\ NumJails >= 2
    /\ idx = 2
    /\ calls[1] # <<>>
    /\ calls[2] # <<>>
    /\ \E k, l \in 1..Len(stream) :
            /\ k < l
            /\ stream[k].identifier = 1
            /\ stream[k].state \in Terminal
            /\ stream[l] = Emit(2, "JailMigration", "running", "none")

----------------------------------------------------------------------------
\* C26: exit status of migrate and start

\* the command that ran is migrate, and its process has ended
MigrateExited == exit_code # -1 /\ cli = <<>>

\* the command that ran is start, and its process has ended
StartExited == exit_code # -1 /\ cli # <<>>

\* events of the migration of jail i that report a failure
FailedEvents(i) ==
    SelectSeq(MigrationEvents(i), LAMBDA ev : ev.state = "failed")

\* start: the override could not be applied to the jail the loop is at
OverrideFailed ==
    /\ cli.rc = FALSE
    /\ InLoop
    /\ set_properties(cli.temporary_config_override,
                      ioc_jails[Jail], FALSE).err # ""

\* start: jail i was started, or was running already
StartedOrSkipped(i) ==
    /\ ioc_jails[i].running = TRUE
    /\ \A k \in 1..Len(cli.failed_jails) : cli.failed_jails[k] # i

\* start exits non-zero when a jail failed, and with zero only when every
\* selected jail was started or was running already
C26_StartExitStatus ==
    StartExited /\ cli.jails # <<>> =>
        /\ (Len(cli.failed_jails) > 0 \/ OverrideFailed) => exit_code # 0
        /\ exit_code = 0 =>
                \A i \in DOMAIN ioc_jails : StartedOrSkipped(i)

\* migrate exits non-zero when the migration of a jail reported a failure,
\* and with zero only when every jail was migrated or skipped
C26_MigrateExitStatus ==
    MigrateExited =>
        /\ (\E i \in JailIds : FailedEvents(i) # <<>>) => exit_code # 0
        /\ exit_code = 0 =>
                \A i \in JailIds : event[i].state \in {"done", "skipped"}

\* C26: a batch command (migrate, start) exits non-zero if any item reported
\* a failure, and exits zero only if every requested item succeeded or was
\* legitimately skipped
C26_BatchExitStatus ==
    /\ C26_MigrateExitStatus
    /\ C26_StartExitStatus

\* migrate has exited with zero although the migration of a jail failed
C26_ZeroAfterFailedMigration ==
    /\ MigrateExited
    /\ exit_code = 0
    /\ \E i \in JailIds : FailedEvents(i) # <<>>

\* start has exited with zero after it started a jail and skipped another
C26_StartWitness ==
    /\ StartExited
    /\ exit_code = 0
    /\ Len(cli.started) > 0
    /\ Len(cli.started) < Len(cli.jails)

----------------------------------------------------------------------------
\* C27: a jail's failure does not end the batch of start

\* the loop of start has reached the jail at position k of its list
Attempted(k) == k < cli.pos \/ (k = cli.pos /\ pc = "normal_try")

\* start was given what it needs to select jails
StartDispatched == cli # <<>> /\ pc \notin {"cli"} /\ cli.rc # (cli.selectors > 0)

\* C27: in start (selector mode and --rc mode) the failure of one jail, while
\* its overrides are applied or while it is started, does not prevent the
\* jails selected after it from being attempted: when the command has exited,
\* the loop has gone through every selected jail
C27_FailureDoesNotStopBatch ==
    StartExited /\ StartDispatched =>
        \A k \in 1..Len(cli.jails) : k < cli.pos

\* a jail whose start fails does not keep start from attempting the others
C27_StartFailureDoesNotStopBatch ==
    StartExited /\ StartDispatched /\ ~OverrideFailed =>
        \A k \in 1..Len(cli.jails) : k < cli.pos

\* start has exited on the override of a jail, a later jail was not attempted
C27_ExitedOnOverride ==
    /\ StartExited
    /\ OverrideFailed
    /\ cli.pos < Len(cli.jails)
    /\ ~Attempted(Len(cli.jails))

\* start has exited after the start of a jail failed and a later one was
\* started
C27_StartedAfterFailure ==
    /\ StartExited
    /\ \E k, l \in 1..Len(cli.started) :
         /\ k < l
         /\ \E f \in 1..Len(cli.failed_jails) :
                cli.failed_jails[f] = cli.started[k]
         /\ ioc_jails[cli.started[l]].running = TRUE

----------------------------------------------------------------------------
\* C28: start --rc goes by priority and skips the running jails

\* the command that runs is start --rc
RcRun == cli # <<>> /\ cli.rc = TRUE /\ pc \in {"autostart", "exited"}

\* C28: start --rc starts the selected jails in non-decreasing order of their
\* priority: of two jails that are both started, the one with the smaller
\* priority is started first; a jail that is running already is passed over
\* without a start call and is not counted as failed
C28_StartedByPriority ==
    /\ [](RcRun =>
            \A k, l \in 1..Len(cli.started) :
                ioc_jails[cli.started[k]].priority
                    < ioc_jails[cli.started[l]].priority => k < l)
    /\ [][RcRun /\ pc = "autostart" /\ InLoop
            /\ ioc_jails[Jail].running = TRUE
          => /\ cli'.started = cli.started
             /\ cli'.failed_jails = cli.failed_jails
             /\ cli'.pos = cli.pos + 1]_vars

\* start --rc has started two jails, the one enumerated later first because
\* its priority is smaller
C28_Witness ==
    /\ RcRun
    /\ pc = "exited"
    /\ \E k, l \in 1..Len(cli.started) :
         /\ k < l
         /\ cli.started[k] > cli.started[l]
         /\ ioc_jails[cli.started[k]].priority
                < ioc_jails[cli.started[l]].priority

----------------------------------------------------------------------------
\* C29: the options of start -o are temporary

\* C29: the options given to start with -o are applied to the jail's
\* configuration in memory only: start never saves the configuration of a
\* jail, whatever number of properties the override changed
C29_OverridesNotSaved ==
    cli # <<>> =>
        \A i \in DOMAIN ioc_jails : ioc_jails[i].saved = DefaultConfig

\* start has applied an override that changed two properties of a jail and
\* has started the jail
C29_Witness ==
    /\ StartExited
    /\ \E i \in DOMAIN ioc_jails :
         /\ ioc_jails[i].config.a # DefaultConfig.a
         /\ ioc_jails[i].config.b # DefaultConfig.b
         /\ \E k \in 1..Len(cli.changed_jails) : cli.changed_jails[k] = i

----------------------------------------------------------------------------
\* C39: the flags of delete_dataset_recursive do not reach the descendants

\* C39: delete_dataset_recursive applies its delete_snapshots and
\* delete_origin_snapshot arguments to the dataset it was called on only:
\* every descendant is deleted by an invocation with both flags true, so a
\* call that returns has deleted the snapshots and the origin snapshots of
\* the descendants, whatever its own flags are
C39_DescendantsDeletedWithDefaults ==
    \A c \in CallsOf("delete_dataset_recursive") :
        LET call == zcall[c]
        IN  /\ \A k \in DOMAIN call.log :
                IF call.log[k].by.dataset = call.dataset
                THEN /\ call.log[k].by.delete_snapshots = call.flags[1]
                     /\ call.log[k].by.delete_origin_snapshot = call.flags[2]
                ELSE /\ call.log[k].by.delete_snapshots = TRUE
                     /\ call.log[k].by.delete_origin_snapshot = TRUE
            /\ call.err = "" =>
                \A d \in children_recursive(call.pre, call.dataset) :
                    /\ snapshots(call.post, d) = {}
                    /\ Origin(call.pre, d) \notin call.post.snapshots

\* a call with both flags false has returned after it deleted a descendant
\* and the descendant's origin snapshot
C39_Witness ==
    \E c \in CallsOf("delete_dataset_recursive") :
        /\ zcall[c].err = ""
        /\ zcall[c].flags = <<FALSE, FALSE>>
        /\ \E d \in children_recursive(zcall[c].pre, zcall[c].dataset) :
             /\ Origin(zcall[c].pre, d) # NoSnapshot
             /\ Origin(zcall[c].pre, d) \in zcall[c].pre.snapshots
             /\ Origin(zcall[c].pre, d) \notin zcall[c].post.snapshots
             /\ \E k \in DOMAIN zcall[c].log :
                  /\ zcall[c].log[k].line = 127
                  /\ zcall[c].log[k].by.dataset = d

----------------------------------------------------------------------------
\* C40: a migration keeps the jail under one of its names

\* the new jail of jail i has its complete dataset tree, under the temporary
\* name or, after the rename, under the final one
NewJailComplete(i) ==
    \/ renamed[i]
    \/ /\ target[temporary_name(i)].owner = i
       /\ target[temporary_name(i)].state = "complete"

\* the destroy of the original jail i was called and failed
DestroyFailed(i) ==
    \E k \in 1..Len(calls[i]) : calls[i][k] = Called("destroy", FALSE)

\* C40: a migration never loses the jail under both names: in every reachable
\* state, a failed destroy of the original jail after the promotion of the
\* new one and the rollback that follows it included, the original jail or
\* the new jail has its complete dataset tree
C40_NeverLosesBoth ==
    \A i \in JailIds : dataset[i] = "complete" \/ NewJailComplete(i)

\* as long as the destroy of the original jail has not failed, one of the two
\* jails is complete
C40_KeptUnlessDestroyFails ==
    \A i \in JailIds :
        ~DestroyFailed(i) => dataset[i] = "complete" \/ NewJailComplete(i)

\* the destroy of the original jail failed midway and the rollback destroyed
\* the promoted new jail: neither is complete
C40_BothLost ==
    \E i \in JailIds :
        /\ DestroyFailed(i)
        /\ event[i].state = "failed"
        /\ dataset[i] = "partial"
        /\ target[temporary_name(i)] = NoJail
        /\ ~renamed[i]

----------------------------------------------------------------------------
\* C36: the base datasets are refreshed when the release changed

\* the release was fetched by this call of fetch
FreshlyFetched == revent["FetchRelease"].state = "done"

\* update ran to its end: the updater of the platform has handed back True
\* (return True of _update_hbsd_jail, yield True of _update_freebsd_jail)
UpdateReportedChange ==
    /\ rlocal.update = TRUE
    /\ revent["RunReleaseUpdate"].state = "done"

\* fetch has decided about ReleaseCopyBase
CopyBaseDecided == release # <<>> /\ pc \in {"c322", "c324", "c326"}
CopyBaseRuns == pc \in {"c322", "c324"}

\* C36: Release.fetch refreshes the base datasets exactly when the release
\* changed: ReleaseCopyBase runs if the release was freshly fetched or if the
\* update run with update=True reported a change, on FreeBSD and on
\* HardenedBSD alike, and is skipped otherwise
C36_CopyBaseWhenReleaseChanged ==
    CopyBaseDecided =>
        (CopyBaseRuns <=> (FreshlyFetched \/ UpdateReportedChange))

\* ReleaseCopyBase runs exactly when the release was freshly fetched
C36_CopyBaseWhenFreshlyFetched ==
    CopyBaseDecided => (CopyBaseRuns <=> FreshlyFetched)

\* on FreeBSD update has set its changed, and ReleaseCopyBase is skipped
C36_SkippedAfterUpdate ==
    /\ pc = "c326"
    /\ UpdateReportedChange
    /\ release.distribution = "FreeBSD"
    /\ rlocal.changed = TRUE
    /\ revent["ReleaseCopyBase"].state = "skipped"

\* on HardenedBSD update has run, its changed is still false
C36_ChangedLostOnHardenedBSD ==
    /\ pc = "c326"
    /\ UpdateReportedChange
    /\ release.distribution = "HardenedBSD"
    /\ rlocal.changed = FALSE

----------------------------------------------------------------------------
\* C37: what set_properties returns and when it saves

\* the command that runs is set
SetRun == cli # <<>> /\ "props" \in DOMAIN cli

\* the configuration after the first k properties were applied to it
RECURSIVE ConfigAfter(_, _, _)
ConfigAfter(config, props, k) ==
    IF k = 0 THEN config
    ELSE LET before == ConfigAfter(config, props, k - 1)
             prop == props[k]
         IN  IF prop.key \notin DOMAIN before THEN before
             ELSE [before EXCEPT ![prop.key] =
                        IF prop.setter THEN prop.value ELSE Unset]

\* the keys whose set changed the value or whose deletion found them set
ChangedKeys(config, props) ==
    {props[k].key : k \in {j \in 1..Len(props) :
        /\ props[j].key \in DOMAIN config
        /\ ConfigAfter(config, props, j - 1)[props[j].key]
                # ConfigAfter(config, props, j)[props[j].key]}}

\* C37: set_properties returns exactly the set of the keys that changed (a
\* key=value property whose config.set reported a change, a bare key whose
\* deletion succeeded; the deletion of an absent key is passed over); the
\* target is saved exactly once, with all properties applied, if and only if
\* that set is not empty and autosave is true
C37_ReturnsChangedKeysAndSavesOnce ==
    /\ SetRun =>
        \A c \in 1..Len(cli.returned) :
            LET call == cli.returned[c]
            IN  call.err = "" =>
                  /\ call.updated = ChangedKeys(call.pre.config, cli.props)
                  /\ call.post.config
                        = ConfigAfter(call.pre.config, cli.props, Len(cli.props))
                  /\ IF call.updated # {}
                     THEN /\ call.post.saves = call.pre.saves + 1
                          /\ call.post.saved = call.post.config
                     ELSE /\ call.post.saves = call.pre.saves
                          /\ call.post.saved = call.pre.saved
    /\ (cli # <<>> /\ ~SetRun) =>
        \A i \in DOMAIN ioc_jails :
            /\ ioc_jails[i].saves = 0
            /\ ioc_jails[i].saved = DefaultConfig

\* set has changed one key of a jail, passed over the deletion of an absent
\* one and saved the jail once
C37_Witness ==
    /\ SetRun
    /\ \E c \in 1..Len(cli.returned) :
         /\ cli.returned[c].err = ""
         /\ Len(cli.props) = 2
         /\ Cardinality(cli.returned[c].updated) = 1
         /\ \E k \in 1..2 : cli.props[k] = Deleter("c")
         /\ cli.returned[c].post.saves = 1

----------------------------------------------------------------------------
\* C31, C32: what parsing a resource limit gives

\* the InvalidSyntax of the data model is the ValueError the parser raises
InvalidSyntax == "ValueError"

\* the last call parsed a string
ParseCalled == limit # <<>> /\ limit.call.op \in {"parse", "reparse"}

\* the string the last call parsed
ParsedText ==
    IF limit.call.op = "reparse" THEN limit.call.text ELSE limit.call.data.text

\* the last call parsed text and gave the triple
Parses(text, amount, action, per) ==
    (ParseCalled /\ ParsedText = text) =>
        /\ limit.call.err = ""
        /\ limit.call.post.amount = amount
        /\ limit.call.post.action = action
        /\ limit.call.post.per = per

\* C31: parse("128M"), parse("128M:deny") and parse("deny=128M/jail") each
\* give (amount, action, per) = ("128M", "deny", "jail"), and parse("") fails
\* with InvalidSyntax
C31_ReferenceInputs ==
    /\ Parses(<<"128M">>, <<"128M">>, <<"deny">>, <<"jail">>)
    /\ Parses(<<"128M", ":", "deny">>, <<"128M">>, <<"deny">>, <<"jail">>)
    /\ Parses(<<"deny", "=", "128M", "/", "jail">>,
              <<"128M">>, <<"deny">>, <<"jail">>)
    /\ (ParseCalled /\ ParsedText = <<>>) =>
            limit.call.err = InvalidSyntax

\* "128M:deny" was parsed
C31_Witness ==
    /\ ParseCalled
    /\ limit.call.op = "parse"
    /\ limit.call.data.text = <<"128M", ":", "deny">>
    /\ limit.call.post.amount = <<"128M">>

\* position of the first c in s (0 when s has none)
find(s, c) ==
    IF In(c, s) THEN CHOOSE k \in 1..Len(s) : s[k] = c /\ \A m \in 1..(k - 1) : s[m] # c
    ELSE 0

\* text has an empty side of its first ':' (legacy grammar)
EmptySideOfColon(text) ==
    /\ ~In("=", text) /\ In(":", text)
    /\ find(text, ":") \in {1, Len(text)}

\* text has an empty side of its first '=' or, behind it, an empty part
\* around the first '/' (full grammar)
EmptyPartOfFull(text) ==
    /\ In("=", text)
    /\ LET rest == SubSeq(text, find(text, "=") + 1, Len(text))
       IN  \/ find(text, "=") = 1
           \/ rest = <<>>
           \/ In("/", rest) /\ find(rest, "/") \in {1, Len(rest)}

\* C32: parse never gives a triple with an empty component: for every input
\* either amount, action and per are all non-empty or parse fails with
\* InvalidSyntax; it fails on an empty side of ':' or '=', on an empty part
\* around '/', and on a full-grammar input with '=' and without '/'
C32_NoEmptyComponent ==
    ParseCalled =>
        LET text == ParsedText
            r == limit.call.post
        IN  /\ \/ limit.call.err = InvalidSyntax
               \/ /\ limit.call.err = ""
                  /\ r.amount # <<>> /\ r.amount # None
                  /\ r.action # <<>> /\ r.action # None
                  /\ r.per # <<>> /\ r.per # None
            /\ (In("=", text) /\ ~In("/", text)) =>
                    limit.call.err = InvalidSyntax
            /\ (EmptySideOfColon(text) \/ EmptyPartOfFull(text)) =>
                    limit.call.err = InvalidSyntax

\* an input with an empty side of ':' was parsed and refused
C32_Witness ==
    /\ ParseCalled
    /\ ParsedText = <<"128M", ":">>
    /\ limit.call.err = InvalidSyntax

----------------------------------------------------------------------------
\* C33: a value that was parsed, serialized and parsed again

\* a valid input was set, str gave its string and the string was parsed
RoundTrip ==
    /\ limit # <<>>
    /\ limit.call.op = "reparse"
    /\ limit.call.data.kind \in {"str", "int"}

\* the string of the value has the legacy form when per is "jail" and the
\* full form otherwise
SerializedForm ==
    LET self == limit.call.pre
    IN  limit.call.text =
            IF self.per = <<"jail">>
            THEN self.amount \o <<":">> \o self.action
            ELSE self.action \o <<"=">> \o self.amount \o <<"/">> \o self.per

\* parsing the string gave the triple that parsing the input gave
SameTriple ==
    /\ limit.call.err = ""
    /\ limit.call.post.amount = limit.call.pre.amount
    /\ limit.call.post.action = limit.call.pre.action
    /\ limit.call.post.per = limit.call.pre.per

\* C33: for every valid input, the serialized string has the legacy form
\* amount:action when per is "jail" and the full form action=amount/per
\* otherwise, and parsing it gives the same (amount, action, per) as parsing
\* the input
C33_RoundTrip == RoundTrip => (SerializedForm /\ SameTriple)

\* what the code does: the form is as said for every valid input, and the
\* triple comes back for simplified and legacy inputs and for full inputs
\* unless per is "jail" and the amount holds a ':' or a '='
C33_RoundTripOfLegacyReadable ==
    RoundTrip =>
        /\ SerializedForm
        /\ (~In("=", str(limit.call.data))
                \/ limit.call.pre.per # <<"jail">>
                \/ (~In(":", limit.call.pre.amount)
                        /\ ~In("=", limit.call.pre.amount))) => SameTriple

\* a valid full input with per "jail" whose string is refused by parse
C33_SerializedNotParsed ==
    /\ RoundTrip
    /\ limit.call.data.text = <<"deny", "=", ":", "/", "jail">>
    /\ limit.call.text = <<":", ":", "deny">>
    /\ limit.call.err = InvalidSyntax

\* a legacy input whose triple came back
C33_LegacyComesBack ==
    /\ RoundTrip
    /\ limit.call.data.text = <<"128M", ":", "deny">>
    /\ SameTriple

----------------------------------------------------------------------------
\* C34: what set does to the property and to its config

SetCalled == limit # <<>> /\ limit.call.op = "set"

\* amount, action and per of the property are the three given
Holds(self, amount, action, per) ==
    self.amount = amount /\ self.action = action /\ self.per = per

\* C34: set(None) clears amount, action and per and removes the property from
\* the attached config; a string or an integer stores its parsed triple;
\* another parsed value is copied field by field; any other kind of input is
\* rejected with a type error; a rejected or unparsable input leaves amount,
\* action, per and the config unchanged
C34_Set ==
    SetCalled =>
        LET data == limit.call.data
            pre == limit.call.pre
            post == limit.call.post
        IN  /\ limit.self = post
            /\ data.kind = "none" =>
                    /\ limit.call.err = ""
                    /\ Holds(post, None, None, None)
                    /\ ~post.config.present
                    /\ post.config.attached = pre.config.attached
            /\ data.kind \in {"str", "int"} =>
                    LET r == _parse_resource_limit(data)
                    IN  /\ limit.call.err = r.err
                        /\ r.err = "" =>
                                /\ Holds(post, r.amount, r.action, r.per)
                                /\ post.config = pre.config
            /\ data.kind = "int" =>
                    Holds(post, <<ToString(data.int)>>, <<"deny">>, <<"jail">>)
            /\ data.kind = "value" =>
                    /\ limit.call.err = ""
                    /\ Holds(post, data.value.amount, data.value.action,
                             data.value.per)
                    /\ post.config = pre.config
            /\ data.kind = "other" => limit.call.err = "TypeError"
            /\ limit.call.err # "" => post = pre

\* an unparsable string was refused and the value of the property is the one
\* it had
C34_Witness ==
    /\ SetCalled
    /\ limit.call.data.text = <<"128M", ":">>
    /\ limit.call.err = InvalidSyntax
    /\ Holds(limit.self, <<"128M">>, <<"deny">>, <<"jail">>)
    /\ limit.self.config.present

----------------------------------------------------------------------------
\* C38: the property a constructor call gives

\* ResourceLimitProp(name, config) has returned
Constructed ==
    /\ limit # <<>>
    /\ limit.call.op = "init"
    /\ limit.call.err = ""

\* the config given to the constructor holds the property
InConfig == limit.call.pre.config.attached /\ limit.call.pre.config.present

\* C38: after the construction of a ResourceLimitProp for a property that is
\* present in the attached config, amount, action and per are the parse of
\* the value stored in the config; when the property is absent or no config
\* is attached, all three are None and the config is unchanged
C38_ConstructedFromConfig ==
    Constructed =>
        /\ InConfig =>
                LET r == _parse_resource_limit(
                            StrData(limit.call.pre.config.value))
                IN  Holds(limit.self, r.amount, r.action, r.per)
        /\ ~InConfig =>
                /\ Holds(limit.self, None, None, None)
                /\ limit.self.config = limit.call.pre.config

\* what the code does: every constructed property holds None three times and
\* its config is unchanged, and the constructor raises when the value in the
\* config does not parse
C38_ConstructedEmpty ==
    /\ Constructed =>
            /\ Holds(limit.self, None, None, None)
            /\ limit.self.config = limit.call.pre.config
    /\ (limit # <<>> /\ limit.call.op = "init" /\ InConfig
            /\ limit.call.data.text = <<"vmemoryuse">>) =>
            limit.call.err =
                _parse_resource_limit(StrData(limit.call.pre.config.value)).err

\* the config holds "128M" for the property and the constructed property
\* holds no amount
C38_ValueOfConfigLost ==
    /\ Constructed
    /\ InConfig
    /\ limit.call.pre.config.value = <<"128M">>
    /\ limit.self.amount = None

\* a property constructed without a config
C38_NoConfig ==
    /\ Constructed
    /\ ~limit.call.pre.config.attached
    /\ Holds(limit.self, None, None, None)

----------------------------------------------------------------------------
\* C35: the timestamp of a snapshot name

\* YYYYMMDDhhmmss.ffffff of an instant
Timestamp(now) ==
    Digits(now.year, 4) \o Digits(now.month, 2) \o Digits(now.day, 2)
        \o Digits(now.hour, 2) \o Digits(now.minute, 2)
        \o Digits(now.second, 2) \o <<".">> \o Digits(now.microsecond, 6)

\* C35: the timestamp appended to a snapshot name is the UTC time in the form
\* YYYYMMDDhhmmss.ffffff (year, month, day, hour, minute, second,
\* microsecond), so two names built from the same label at two distinct
\* instants are distinct
C35_TimestampUnique ==
    /\ \A i \in 1..Len(stamps) :
         stamps[i].name = stamps[i].text \o Timestamp(stamps[i].now)
    /\ \A i, j \in 1..Len(stamps) :
         (stamps[i].text = stamps[j].text /\ stamps[i].now # stamps[j].now)
            => stamps[i].name # stamps[j].name

\* what the code does: the minute is not in the name, whose fifth field is
\* the hour of the 12-hour clock, and two names of one label are distinct
\* when their instants differ in more than the minute
C35_UniqueUpToMinute ==
    /\ \A i \in 1..Len(stamps) :
         LET now == stamps[i].now
         IN  SubSeq(stamps[i].name, Len(stamps[i].text) + 11,
                    Len(stamps[i].text) + 12) = Digits(Hour12(now), 2)
    /\ \A i, j \in 1..Len(stamps) :
         (stamps[i].text = stamps[j].text
            /\ [stamps[i].now EXCEPT !.minute = 0]
                    # [stamps[j].now EXCEPT !.minute = 0])
            => stamps[i].name # stamps[j].name

\* two names of one label built 59 minutes apart are the same name
C35_SameNameTwice ==
    /\ Len(stamps) >= 2
    /\ stamps[1].text = stamps[2].text
    /\ stamps[1].now.minute = 0
    /\ stamps[2].now = [stamps[1].now EXCEPT !.minute = 59]
    /\ stamps[1].name = stamps[2].name
    /\ stamps[1].fn = "append_snapshot_datetime"
    /\ stamps[2].fn = "_append_datetime"

============================================================================
